---- MODULE Spec2Model ----
(***************************************************************************)
(* Model of the moderation decision engine of the community toolkit        *)
(* plugin: configuration loading, the user record cache, the moderation    *)
(* rules and the content filter pipeline (server/user.go,                  *)
(* server/configuration.go, server/utils.go and the validators).           *)
(*                                                                         *)
(* Text (messages, user names, e-mail addresses, word lists, duration      *)
(* strings) is a sequence of one-character strings.  Time is counted in    *)
(* seconds.                                                                *)
(***************************************************************************)
EXTENDS Integers, Sequences, FiniteSets, TLC

\* ------------------------------------------------------------------------
\* Bounds of the model
\* ------------------------------------------------------------------------

\* wall-clock readings range over 0..MaxNow
MaxNow == 2

\* capacity of the user record cache in the model
CacheCapacity == 1

\* ------------------------------------------------------------------------
\* Text helpers
\* ------------------------------------------------------------------------

Nil == [nil |-> TRUE]

Min(a, b) == IF a < b THEN a ELSE b

\* s[from..to], empty when from > to
Slice(s, from, to) == [i \in 1..(to - from + 1) |-> s[from + i - 1]]

\* does the text p occur in s starting at position i
MatchesAt(s, p, i) ==
    /\ i >= 1
    /\ i + Len(p) - 1 <= Len(s)
    /\ \A k \in 1..Len(p) : s[i + k - 1] = p[k]

\* strings.Contains
Contains(s, p) == \E i \in 1..(Len(s) + 1) : MatchesAt(s, p, i)

\* strings.HasSuffix
HasSuffix(s, p) == Len(p) <= Len(s) /\ MatchesAt(s, p, Len(s) - Len(p) + 1)

\* position of the first occurrence of the character c in s, 0 when absent
IndexOf(s, c) ==
    IF \E i \in 1..Len(s) : s[i] = c
    THEN CHOOSE i \in 1..Len(s) : s[i] = c /\ \A j \in 1..(i - 1) : s[j] # c
    ELSE 0

WhiteSpace == {" ", "\n", "\t"}

Digits == {"0", "1", "2", "3", "4", "5", "6", "7", "8", "9"}

UpperCase == {"A", "B", "C", "G", "H", "N", "P"}

\* the characters the regexp class \w holds: letters, digits and underscore
WordChars ==
    {"a", "b", "c", "d", "e", "f", "g", "h", "i", "j", "k", "l", "m", "n",
     "o", "p", "q", "r", "s", "t", "u", "v", "w", "x", "y", "z", "_"}
    \cup UpperCase \cup Digits

\* simple case folding of the (?i) flag
ToLower(c) ==
    CASE c = "A" -> "a"
      [] c = "B" -> "b"
      [] c = "C" -> "c"
      [] c = "G" -> "g"
      [] c = "H" -> "h"
      [] c = "N" -> "n"
      [] c = "P" -> "p"
      [] OTHER -> c

\* strings.TrimSpace
RECURSIVE TrimLeft(_)
TrimLeft(s) ==
    IF s # << >> /\ Head(s) \in WhiteSpace THEN TrimLeft(Tail(s)) ELSE s

RECURSIVE TrimRight(_)
TrimRight(s) ==
    IF s # << >> /\ s[Len(s)] \in WhiteSpace
    THEN TrimRight(SubSeq(s, 1, Len(s) - 1))
    ELSE s

TrimSpace(s) == TrimRight(TrimLeft(s))

\* strings.Split(s, ","): always at least one token
RECURSIVE Split(_, _)
Split(s, sep) ==
    LET i == IndexOf(s, sep)
    IN  IF i = 0
        THEN << s >>
        ELSE << SubSeq(s, 1, i - 1) >> \o Split(SubSeq(s, i + 1, Len(s)), sep)

\* sort.Slice(split, len(split[i]) > len(split[j])): the lists of the model
\* are shorter than 12 tokens, for which sort.Slice is an insertion sort, so
\* tokens of equal length keep their order
\* an insertion that leaves the tokens in the order of the list
InsertLast(sorted, tok) == Append(sorted, tok)

RECURSIVE InsertByLength(_, _)
InsertByLength(sorted, tok) ==
    IF sorted = << >>
    THEN << tok >>
    ELSE IF Len(tok) > Len(Head(sorted))
         THEN << tok >> \o sorted
         ELSE << Head(sorted) >> \o InsertByLength(Tail(sorted), tok)

RECURSIVE SortByLengthDesc(_)
SortByLengthDesc(toks) ==
    IF toks = << >>
    THEN << >>
    ELSE InsertByLength(SortByLengthDesc(SubSeq(toks, 1, Len(toks) - 1)),
                        toks[Len(toks)])

\* ------------------------------------------------------------------------
\* Word lists and their regular expressions (server/configuration.go)
\* ------------------------------------------------------------------------

\* the two templates in use: `(?mi)\b(%s)\b` and `(?mi)(%s)`
defaultRegexTemplate == "(?mi)\\b(%s)\\b"

bareRegexTemplate == "(?mi)(%s)"

\* wordListToRegex: split on commas, trim, longest first, join with "|" into
\* the template.  The regular expression is kept as its template and the
\* ordered alternatives.
wordListToRegex(wordList, regexTemplate) ==
    LET split   == Split(wordList, ",")
        trimmed == [i \in 1..Len(split) |-> TrimSpace(split[i])]
    IN  [template |-> regexTemplate, alts |-> SortByLengthDesc(trimmed)]

\* regexp.Compile fails on an unbalanced group; the other characters of the
\* model's alphabet are literals, or the wildcard "."
Compiles(re) ==
    \A k \in 1..Len(re.alts) :
        \A i \in 1..Len(re.alts[k]) : re.alts[k][i] \notin {"(", ")"}

\* splitWordListToRegex: Nil for an empty list, an error for a list that does
\* not compile
splitWordListToRegex(wordList, regexTemplate) ==
    IF Len(wordList) < 1
    THEN [err |-> FALSE, regex |-> Nil]
    ELSE LET re == wordListToRegex(wordList, regexTemplate)
         IN  IF Compiles(re)
             THEN [err |-> FALSE, regex |-> re]
             ELSE [err |-> TRUE, regex |-> Nil]

IsWordChar(s, pos) == pos >= 1 /\ pos <= Len(s) /\ s[pos] \in WordChars

\* \b between s[pos] and s[pos + 1]
WordBoundary(s, pos) == IsWordChar(s, pos) # IsWordChar(s, pos + 1)

\* one pattern character against one text character, case-insensitively
CharMatches(p, c) == IF p = "." THEN c # "\n" ELSE ToLower(p) = ToLower(c)

AltMatchesAt(re, k, s, i) ==
    LET alt == re.alts[k]
    IN  /\ i + Len(alt) - 1 <= Len(s)
        /\ \A j \in 1..Len(alt) : CharMatches(alt[j], s[i + j - 1])
        /\ re.template = defaultRegexTemplate =>
              /\ WordBoundary(s, i - 1)
              /\ WordBoundary(s, i + Len(alt) - 1)

\* length of the match that starts at i (the first alternative that matches
\* wins), -1 when there is none
MatchLenAt(re, s, i) ==
    IF \E k \in 1..Len(re.alts) : AltMatchesAt(re, k, s, i)
    THEN LET k == CHOOSE k \in 1..Len(re.alts) :
                      /\ AltMatchesAt(re, k, s, i)
                      /\ \A j \in 1..(k - 1) : ~AltMatchesAt(re, j, s, i)
         IN  Len(re.alts[k])
    ELSE -1

\* Regexp.MatchString
MatchString(re, s) == \E i \in 1..(Len(s) + 1) : MatchLenAt(re, s, i) >= 0

\* Regexp.FindAllString(s, -1): the successive leftmost matches; an empty
\* match right after the previous match is skipped
RECURSIVE FindAllFrom(_, _, _, _)
FindAllFrom(re, s, i, prevEnd) ==
    IF i > Len(s) + 1
    THEN << >>
    ELSE LET n == MatchLenAt(re, s, i)
         IN  IF n < 0 \/ (n = 0 /\ i = prevEnd)
             THEN FindAllFrom(re, s, i + 1, prevEnd)
             ELSE << Slice(s, i, i + n - 1) >>
                  \o FindAllFrom(re, s, IF n = 0 THEN i + 1 ELSE i + n, i + n)

FindAllString(re, s) == FindAllFrom(re, s, 1, -1)

\* ------------------------------------------------------------------------
\* Durations (time.ParseDuration, in seconds)
\* ------------------------------------------------------------------------

DigitValue(c) ==
    CASE c = "0" -> 0 [] c = "1" -> 1 [] c = "2" -> 2 [] c = "3" -> 3
      [] c = "4" -> 4 [] c = "5" -> 5 [] c = "6" -> 6 [] c = "7" -> 7
      [] c = "8" -> 8 [] c = "9" -> 9

\* the units of time.ParseDuration that are whole seconds
UnitSeconds(u) ==
    CASE u = << "s" >> -> 1
      [] u = << "m" >> -> 60
      [] u = << "h" >> -> 3600
      [] OTHER -> -1

RECURSIVE LeadingCount(_, _)
LeadingCount(s, set) ==
    IF s # << >> /\ Head(s) \in set THEN 1 + LeadingCount(Tail(s), set) ELSE 0

RECURSIVE DigitsValue(_, _)
DigitsValue(s, acc) ==
    IF s = << >> THEN acc ELSE DigitsValue(Tail(s), 10 * acc + DigitValue(Head(s)))

\* the groups <digits><unit> of a duration; err when a group is malformed
RECURSIVE ParseGroups(_, _)
ParseGroups(s, acc) ==
    IF s = << >>
    THEN [err |-> FALSE, d |-> acc]
    ELSE LET nd   == LeadingCount(s, Digits)
             rest == SubSeq(s, nd + 1, Len(s))
             nu   == LeadingCount(rest, WordChars \ Digits)
             unit == SubSeq(rest, 1, nu)
         IN  IF nd = 0 \/ nu = 0 \/ UnitSeconds(unit) < 0
             THEN [err |-> TRUE, d |-> 0]
             ELSE ParseGroups(SubSeq(rest, nu + 1, Len(rest)),
                              acc + DigitsValue(SubSeq(s, 1, nd), 0) * UnitSeconds(unit))

\* time.ParseDuration: [-+]?(<digits><unit>)+, or "0"
ParseDuration(s) ==
    LET neg  == s # << >> /\ Head(s) = "-"
        body == IF s # << >> /\ Head(s) \in {"-", "+"} THEN Tail(s) ELSE s
    IN  IF body = << "0" >>
        THEN [err |-> FALSE, d |-> 0]
        ELSE IF body = << >>
             THEN [err |-> TRUE, d |-> 0]
             ELSE LET g == ParseGroups(body, 0)
                  IN  IF g.err THEN g
                      ELSE [err |-> FALSE, d |-> IF neg THEN 0 - g.d ELSE g.d]

\* the sentinel of indefinite blocking
Forever == << "-", "1" >>

\* validateDurationConfig: TRUE when the duration string is accepted
validateDurationConfig(duration) ==
    \/ duration = << >>
    \/ duration = Forever
    \/ ~ParseDuration(duration).err

\* ------------------------------------------------------------------------
\* Accents (server/utils.go)
\* ------------------------------------------------------------------------

\* NFD, removal of the combining marks, NFC, for the accented letters of the
\* model
BaseLetter(c) ==
    CASE c = "á" -> "a"
      [] c = "â" -> "a"
      [] c = "é" -> "e"
      [] OTHER -> c

removeAccents(s) == [i \in 1..Len(s) |-> BaseLetter(s[i])]

\* ------------------------------------------------------------------------
\* The external collaborators: user store, channels, files, bundled list
\* ------------------------------------------------------------------------

Text_hate == << "h", "a", "t", "e" >>

Text_badcom == << "b", "a", "d", ".", "c", "o", "m" >>

Text_hoocom == << "h", "o", "o", ".", "c", "o", "m" >>

Text_abc == << "a", "b", "c" >>

Text_star == << "*" >>

Text_system_admin == << "s", "y", "s", "t", "e", "m", "_", "a", "d", "m", "i", "n" >>

Text_system_user == << "s", "y", "s", "t", "e", "m", "_", "u", "s", "e", "r" >>

\* the bundled bad-domains.txt, after jsonArrayToStringSlice
builtinDomainList == << Text_hoocom >>

NewUser(id, username, nickname, email, roles, deleteAt) ==
    [Id |-> id, Username |-> username, Nickname |-> nickname, Email |-> email,
     CreateAt |-> 0, DeleteAt |-> deleteAt, Roles |-> roles]

\* the accounts of the user store
UserIds == {"bob", "ann", "hater", "nick", "mail", "hoo", "gone"}

InitialUsers ==
    [id \in UserIds |->
        CASE id = "bob" ->
               NewUser(id, << "b", "o", "b" >>, << >>, << "b", "@", "o", "k", ".", "o", "r", "g" >>, Text_system_user, 0)
          [] id = "ann" ->
               NewUser(id, << "a", "n", "n" >>, << >>, << "a", "@", "o", "k", ".", "o", "r", "g" >>,
                       Text_system_user \o << " " >> \o Text_system_admin, 0)
          [] id = "hater" ->
               NewUser(id, << "i", "h", "a", "t", "e", "n", "e", "i", "l" >>, << >>, << "b", "@", "o", "k", ".", "o", "r", "g" >>, Text_system_user, 0)
          [] id = "nick" ->
               NewUser(id, << "n", "i", "c" >>, << "H", "a", "t", "e" >>, << "b", "@", "o", "k", ".", "o", "r", "g" >>, Text_system_admin, 0)
          [] id = "mail" ->
               NewUser(id, << "m", "e", "l" >>, << >>, << "m", "@", "b", "a", "d", ".", "c", "o", "m" >>, Text_system_user, 0)
          [] id = "hoo" ->
               NewUser(id, << "h", "a", "l" >>, << >>, << "h", "@", "h", "o", "o", ".", "c", "o", "m" >>, Text_system_user, 0)
          [] id = "gone" ->
               NewUser(id, << "g", "u", "s" >>, << >>, << "b", "@", "o", "k", ".", "o", "r", "g" >>, Text_system_user, 1)]

\* model.User{}: what GetUserByID and Get hand back next to an error or a miss
EmptyUser == NewUser("", << >>, << >>, << >>, << >>, 0)

\* channel types by channel id; GetChannel fails for any other id
ChannelTypeDirect == "D"

ChannelTypeOpen == "O"

Channels == [dm |-> ChannelTypeDirect, town |-> ChannelTypeOpen]

\* extensions of the uploaded files by file id; GetFileInfo fails for any other id
FileInfos == [pic |-> << ".", "P", "N", "G" >>, doc |-> << "p", "d", "f" >>]

\* ------------------------------------------------------------------------
\* LRUCache (server/user.go)
\* ------------------------------------------------------------------------

\* An LRUCache is its capacity and its map from key to entry.  Time stamps
\* come from the monotonic clock, so a new stamp is later than every stamp
\* in the map.  Only the order of the stamps is observable
\* (lastAccess.Before); they are kept as ranks 1..n.
Rank(entries, k) ==
    Cardinality({j \in DOMAIN entries : entries[j].lastAccess <= entries[k].lastAccess})

Ranked(entries) ==
    [k \in DOMAIN entries |->
        [user |-> entries[k].user, lastAccess |-> Rank(entries, k)]]

TimeNow(entries) == Cardinality(DOMAIN entries) + 1

NewLRUCache(capacity) ==
    [capacity |-> capacity,
     cache    |-> [k \in {} |-> [user |-> EmptyUser, lastAccess |-> 0]]]

\* a Get that leaves the time stamp of the entry it finds alone
LRUGetUnstamped(c, key) ==
    IF key \notin DOMAIN c.cache
    THEN [user |-> EmptyUser, found |-> FALSE, c |-> c]
    ELSE [user |-> c.cache[key].user, found |-> TRUE, c |-> c]

\* LRUCache.Get: the entry's user and whether it was found; a hit restamps
LRUGet(c, key) ==
    IF key \notin DOMAIN c.cache
    THEN [user |-> EmptyUser, found |-> FALSE, c |-> c]
    ELSE [user  |-> c.cache[key].user,
          found |-> TRUE,
          c     |-> [c EXCEPT !.cache =
                        Ranked([c.cache EXCEPT ![key].lastAccess = TimeNow(c.cache)])]]

\* a pass over the map that keeps the latest stamp instead of the earliest
RECURSIVE NewestKey(_, _, _, _)
NewestKey(entries, order, newestKey, newestTime) ==
    IF order = << >>
    THEN newestKey
    ELSE LET k == Head(order)
         IN  IF newestKey = "" \/ entries[k].lastAccess > newestTime
             THEN NewestKey(entries, Tail(order), k, entries[k].lastAccess)
             ELSE NewestKey(entries, Tail(order), newestKey, newestTime)

\* evictOldest: one pass over the map in the iteration order `order`;
\* stamp 0 stands for the zero time.Time
RECURSIVE OldestKey(_, _, _, _)
OldestKey(entries, order, oldestKey, oldestTime) ==
    IF order = << >>
    THEN oldestKey
    ELSE LET k == Head(order)
         IN  IF oldestKey = "" \/ entries[k].lastAccess < oldestTime
             THEN OldestKey(entries, Tail(order), k, entries[k].lastAccess)
             ELSE OldestKey(entries, Tail(order), oldestKey, oldestTime)

evictOldest(entries, order) ==
    LET oldestKey == OldestKey(entries, order, "", 0)
    IN  IF oldestKey # ""
        THEN [k \in DOMAIN entries \ {oldestKey} |-> entries[k]]
        ELSE entries

\* the orders in which a range over the map can visit its keys
IterationOrders(entries) ==
    {o \in [1..Cardinality(DOMAIN entries) -> DOMAIN entries] :
        \A i, j \in DOMAIN o : i # j => o[i] # o[j]}

\* a Put that never evicts
LRUPutUnbounded(c, key, user, order) ==
    [c EXCEPT !.cache =
        Ranked([k \in DOMAIN c.cache \cup {key} |->
                   IF k = key
                   THEN [user |-> user, lastAccess |-> TimeNow(c.cache)]
                   ELSE c.cache[k]])]

\* LRUCache.Put
LRUPut(c, key, user, order) ==
    IF key \in DOMAIN c.cache
    THEN [c EXCEPT !.cache =
            Ranked([c.cache EXCEPT
                       ![key] = [user |-> user, lastAccess |-> TimeNow(c.cache)]])]
    ELSE LET room == IF Cardinality(DOMAIN c.cache) >= c.capacity
                     THEN evictOldest(c.cache, order)
                     ELSE c.cache
         IN  [c EXCEPT !.cache =
                Ranked([k \in DOMAIN room \cup {key} |->
                           IF k = key
                           THEN [user |-> user, lastAccess |-> TimeNow(c.cache)]
                           ELSE room[k]])]

\* LRUCache.Remove
LRURemove(c, key) ==
    [c EXCEPT !.cache = Ranked([k \in DOMAIN c.cache \ {key} |-> c.cache[k]])]

\* ------------------------------------------------------------------------
\* Plugin state
\* ------------------------------------------------------------------------

VARIABLES
    configuration,      \* p.configuration: Nil or the active configuration
    badWordsRegex,      \* p.badWordsRegex: Nil or a compiled word list
    badDomainsRegex,    \* p.badDomainsRegex
    badUsernamesRegex,  \* p.badUsernamesRegex
    badDomainsList,     \* p.badDomainsList: Nil or the slice of builtin domains
    cache,              \* p.cache: Nil or the LRUCache
    users,              \* the user store behind p.API
    last,               \* the hook being served: its input, its external
                        \* calls and what it returns
    goroutines,         \* the calls in progress on concurrent goroutines:
                        \* for each its position and its locals
    history,            \* what the calls on the cache have done so far,
                        \* kept for the properties
    teamMembers,        \* the team memberships the server holds
    heap                \* the model.User objects the cache's pointers and
                        \* the callers' pointers refer to, where the
                        \* sharing of an object matters

vars == << configuration, badWordsRegex, badDomainsRegex, badUsernamesRegex,
           badDomainsList, cache, users, last, goroutines, history,
           teamMembers, heap >>

\* no goroutine besides the one serving the hook
NoGoroutines == << >>

\* no object whose sharing matters
NoObjects == << >>

\* history: the cached keys from the least to the most recently used, the
\* key and value of every Put, the users whose cleanup has removed their
\* cache entry
NoHistory == [uses |-> << >>, puts |-> {}, cleaned |-> {}]

\* the zero value &configuration{}
EmptyConfiguration ==
    [BadDomainsList         |-> << >>,
     BadUsernamesList       |-> << >>,
     BuiltinBadDomains      |-> FALSE,
     BadWordsList           |-> << >>,
     BlockNewUserPM         |-> FALSE,
     BlockNewUserPMTime     |-> << >>,
     BlockNewUserLinks      |-> FALSE,
     BlockNewUserLinksTime  |-> << >>,
     BlockNewUserImages     |-> FALSE,
     BlockNewUserImagesTime |-> << >>,
     CensorCharacter        |-> << >>,
     ExcludeBots            |-> FALSE,
     RejectPosts            |-> FALSE,
     WarningMessage         |-> "",
     AdminUsername          |-> << >>]

\* getConfiguration
getConfiguration == IF configuration = Nil THEN EmptyConfiguration ELSE configuration

\* ------------------------------------------------------------------------
\* Moderation rules (validators, server/utils.go)
\* ------------------------------------------------------------------------

\* EndsWith(search, target): target ends with one of search
EndsWith(search, target) == \E i \in 1..Len(search) : HasSuffix(target, search[i])

\* strings.SplitN(email, "@", 2): the part after the first "@", when there is one
HasDomain(email) == IndexOf(email, "@") > 0

DomainOf(email) == SubSeq(email, IndexOf(email, "@") + 1, Len(email))

\* checkBadUsername: TRUE when the check returns an error
checkBadUsername(user) ==
    /\ badUsernamesRegex # Nil
    /\ \/ MatchString(badUsernamesRegex, user.Username)
       \/ MatchString(badUsernamesRegex, user.Nickname)

\* checkBadEmail: "bad" when the check returns an error, "ok" when it returns
\* nil, "panic" when it dereferences a nil p.configuration or p.badDomainsList
checkBadEmail(user) ==
    LET email == user.Email
    IN  IF configuration = Nil
        THEN "panic"
        ELSE IF configuration.BuiltinBadDomains /\ badDomainsList = Nil
        THEN "panic"
        ELSE IF configuration.BuiltinBadDomains /\ EndsWith(badDomainsList.slice, email)
        THEN "bad"
        ELSE IF /\ badDomainsRegex # Nil
                /\ HasDomain(email)
                /\ MatchString(badDomainsRegex, DomainOf(email))
        THEN "bad"
        ELSE "ok"

\* an isSystemAdmin that wants the role string to be exactly system_admin
isSystemAdminExact(user) == user.Roles = Text_system_admin

\* isSystemAdmin
isSystemAdmin(user) ==
    user.Roles = Text_system_admin \/ Contains(user.Roles, Text_system_admin)

\* ------------------------------------------------------------------------
\* A hook run: the state a handler threads through its calls
\* ------------------------------------------------------------------------

\* env.fetchOK[i]: whether the i-th p.API.GetUser of the hook succeeds
\* env.now: the wall clock at the call of isUserTooNew
\* run.cache: the cache as the handler has left it so far
\* run.eph:   the ephemeral posts sent so far
\* run.trace: the stages of FilterPost entered so far
\* run.fetched: the number of p.API.GetUser calls made so far
\* run.aged: whether isUserTooNew has been called, which is when the age of
\*           the account at env.now matters
NewRun ==
    [cache |-> cache, eph |-> << >>, trace |-> << >>, fetched |-> 0, aged |-> FALSE]

Stage(run, name) == [run EXCEPT !.trace = Append(@, name)]

\* sendUserEphemeralMessageForPost
sendUserEphemeralMessageForPost(run, post, message) ==
    [run EXCEPT !.eph = Append(@, [UserId    |-> post.UserId,
                                    ChannelId |-> post.ChannelId,
                                    RootId    |-> post.RootId,
                                    Message   |-> message])]

\* a message or rejection reason: the format string and what is put into it
Msg(text) == [text |-> text, contentType |-> "", duration |-> 0, words |-> << >>]

MsgFor(text, contentType) == [Msg(text) EXCEPT !.contentType = contentType]

MsgForDuration(text, contentType, duration) ==
    [Msg(text) EXCEPT !.contentType = contentType, !.duration = duration]

MsgWords(text, words) == [Msg(text) EXCEPT !.words = words]

NoMsg == Msg("")

\* p.API.GetUser
APIGetUser(run, env, userID) ==
    LET n == run.fetched + 1
    IN  [ok   |-> env.fetchOK[n] /\ userID \in DOMAIN users,
         run  |-> [run EXCEPT !.fetched = n]]

\* a GetUserByID that caches the empty user of a failed fetch
GetUserByIDCachingFailure(run, env, userID) ==
    LET hit == IF run.cache = Nil
               THEN [user |-> EmptyUser, found |-> FALSE, c |-> Nil]
               ELSE LRUGet(run.cache, userID)
        api == APIGetUser(run, env, userID)
        got == IF api.ok THEN users[userID] ELSE EmptyUser
    IN  IF hit.found
        THEN [user |-> hit.user, err |-> FALSE, run |-> [run EXCEPT !.cache = hit.c]]
        ELSE [user |-> got, err |-> ~api.ok,
              run  |-> IF run.cache = Nil
                       THEN api.run
                       ELSE [api.run EXCEPT !.cache =
                                LRUPut(run.cache, userID, got,
                                       CHOOSE o \in IterationOrders(run.cache.cache) : TRUE)]]

\* GetUserByID
GetUserByID(run, env, userID) ==
    LET hit == IF run.cache = Nil
               THEN [user |-> EmptyUser, found |-> FALSE, c |-> Nil]
               ELSE LRUGet(run.cache, userID)
    IN  IF hit.found
        THEN [user |-> hit.user, err |-> FALSE, run |-> [run EXCEPT !.cache = hit.c]]
        ELSE LET api == APIGetUser(run, env, userID)
             IN  IF ~api.ok
                 THEN [user |-> EmptyUser, err |-> TRUE, run |-> api.run]
                 ELSE IF run.cache = Nil
                 THEN [user |-> users[userID], err |-> FALSE, run |-> api.run]
                 ELSE [user |-> users[userID], err |-> FALSE,
                       run  |-> [api.run EXCEPT !.cache =
                                    LRUPut(run.cache, users[userID].Id, users[userID],
                                           CHOOSE o \in IterationOrders(run.cache.cache) :
                                               TRUE)]]

\* a shouldBlockUserPost that blocks when the lookup fails
shouldBlockUserPostFailClosed(run, env, userID) ==
    IF userID = ""
    THEN [verdict |-> "allow", run |-> run]
    ELSE LET got == GetUserByID(run, env, userID)
         IN  IF got.err
             THEN [verdict |-> "block", run |-> got.run]
             ELSE IF got.user.DeleteAt > 0
             THEN [verdict |-> "block", run |-> got.run]
             ELSE IF checkBadUsername(got.user)
             THEN [verdict |-> "block", run |-> got.run]
             ELSE [verdict |-> CASE checkBadEmail(got.user) = "bad" -> "block"
                                 [] checkBadEmail(got.user) = "ok" -> "allow"
                                 [] OTHER -> "panic",
                   run |-> got.run]

\* shouldBlockUserPost: "block", "allow", or "panic" out of checkBadEmail
shouldBlockUserPost(run, env, userID) ==
    IF userID = ""
    THEN [verdict |-> "allow", run |-> run]
    ELSE LET got == GetUserByID(run, env, userID)
         IN  IF got.err
             THEN [verdict |-> "allow", run |-> got.run]
             ELSE IF got.user.DeleteAt > 0
             THEN [verdict |-> "block", run |-> got.run]
             ELSE IF checkBadUsername(got.user)
             THEN [verdict |-> "block", run |-> got.run]
             ELSE [verdict |-> CASE checkBadEmail(got.user) = "bad" -> "block"
                                 [] checkBadEmail(got.user) = "ok" -> "allow"
                                 [] OTHER -> "panic",
                   run |-> got.run]

\* ------------------------------------------------------------------------
\* Content detection (server/user.go, server/utils.go)
\* ------------------------------------------------------------------------

\* isDirectMessage: "panic" when GetChannel fails
isDirectMessage(channelID) ==
    IF channelID \notin DOMAIN Channels
    THEN "panic"
    ELSE IF Channels[channelID] = ChannelTypeDirect THEN "yes" ELSE "no"

UrlPrefixes == { << "h", "t", "t", "p", ":", "/", "/" >>, << "h", "t", "t", "p", "s", ":", "/", "/" >>, << "w", "w", "w", "." >> }

\* the class [^\s<>"]
UrlChar(c) == c \notin {" ", "\t", "\n", "\f", "\r", "<", ">", "\""}

\* urlRegex.MatchString: https?://[^\s<>"]+|www\.[^\s<>"]+
urlRegexMatch(s) ==
    \E i \in 1..Len(s) : \E pre \in UrlPrefixes :
        /\ MatchesAt(s, pre, i)
        /\ i + Len(pre) <= Len(s)
        /\ UrlChar(s[i + Len(pre)])

\* containsLinks
containsLinks(post) ==
    \/ post.Metadata # Nil /\ post.Metadata.Embeds > 0
    \/ urlRegexMatch(post.Message)

\* imageRegex.MatchString: !\[.*?\]\(.*?\), where . is any character but \n
imageRegexMatch(s) ==
    \E i \in 1..Len(s) :
        /\ MatchesAt(s, << "!", "[" >>, i)
        /\ \E j \in (i + 2)..Len(s) :
              /\ MatchesAt(s, << "]", "(" >>, j)
              /\ \A x \in (i + 2)..(j - 1) : s[x] # "\n"
              /\ \E k \in (j + 2)..Len(s) :
                    /\ s[k] = ")"
                    /\ \A x \in (j + 2)..(k - 1) : s[x] # "\n"

ImageExtensions ==
    { << "j", "p", "g" >>, << "j", "p", "e", "g" >>, << "p", "n", "g" >>, << "g", "i", "f" >>, << "b", "m", "p" >>, << "w", "e", "b", "p" >>, << "s", "v", "g" >>,
      << "t", "i", "f", "f" >>, << "t", "i", "f" >>, << "i", "c", "o" >>, << "h", "e", "i", "c" >>, << "h", "e", "i", "f" >>, << "a", "v", "i", "f" >> }

\* isImageExtension
isImageExtension(extension) ==
    LET noDot == IF extension # << >> /\ Head(extension) = "." THEN Tail(extension)
                 ELSE extension
        ext   == [i \in 1..Len(noDot) |-> ToLower(noDot[i])]
    IN  ext \in ImageExtensions

\* containsImages; a file whose GetFileInfo fails is skipped
containsImages(post) ==
    \/ /\ post.Metadata # Nil
       /\ \E i \in 1..Len(post.Metadata.Files) : isImageExtension(post.Metadata.Files[i])
    \/ \E i \in 1..Len(post.FileIds) :
          /\ post.FileIds[i] \in DOMAIN FileInfos
          /\ isImageExtension(FileInfos[post.FileIds[i]])
    \/ post.Metadata # Nil /\ post.Metadata.Images > 0
    \/ imageRegexMatch(post.Message)

\* ------------------------------------------------------------------------
\* The new-account gate (server/user.go)
\* ------------------------------------------------------------------------

Pass(run, post) == [kind |-> "pass", post |-> post, reason |-> NoMsg, run |-> run]

Reject(run, reason) == [kind |-> "reject", post |-> Nil, reason |-> reason, run |-> run]

Panic(run) == [kind |-> "panic", post |-> Nil, reason |-> NoMsg, run |-> run]

SomethingWentWrong ==
    Msg("Something went wrong when sending your message. Contact an administrator.")

\* an isUserTooNew that still blocks at an age equal to the duration
isUserTooNewInclusive(user, blockDuration, contentType, now) ==
    IF blockDuration = Forever
    THEN [tooNew |-> TRUE,
          msg    |-> MsgFor("New user not allowed to post %s indefinitely.", contentType),
          err    |-> NoMsg]
    ELSE LET parsed == ParseDuration(blockDuration)
             age    == now - user.CreateAt
         IN  IF parsed.err
             THEN [tooNew |-> FALSE, msg |-> NoMsg,
                   err |-> Msg("failed to parse duration: %w")]
             ELSE IF age <= parsed.d
             THEN [tooNew |-> TRUE,
                   msg    |-> MsgForDuration("New user not allowed to post %s for %s.",
                                             contentType, parsed.d),
                   err    |-> NoMsg]
             ELSE [tooNew |-> FALSE, msg |-> NoMsg, err |-> NoMsg]

\* an isUserTooNew without the "-1" sentinel
isUserTooNewNoSentinel(user, blockDuration, contentType, now) ==
    LET parsed == ParseDuration(blockDuration)
        age    == now - user.CreateAt
    IN  IF parsed.err
        THEN [tooNew |-> FALSE, msg |-> NoMsg,
              err |-> Msg("failed to parse duration: %w")]
        ELSE IF age < parsed.d
        THEN [tooNew |-> TRUE,
              msg    |-> MsgForDuration("New user not allowed to post %s for %s.",
                                        contentType, parsed.d),
              err    |-> NoMsg]
        ELSE [tooNew |-> FALSE, msg |-> NoMsg, err |-> NoMsg]

\* isUserTooNew: (isTooNew, errorMessage, error)
isUserTooNew(user, blockDuration, contentType, now) ==
    IF blockDuration = Forever
    THEN [tooNew |-> TRUE,
          msg    |-> MsgFor("New user not allowed to post %s indefinitely.", contentType),
          err    |-> NoMsg]
    ELSE LET parsed == ParseDuration(blockDuration)
             age    == now - user.CreateAt
         IN  IF parsed.err
             THEN [tooNew |-> FALSE, msg |-> NoMsg,
                   err |-> Msg("failed to parse duration: %w")]
             ELSE IF age < parsed.d
             THEN [tooNew |-> TRUE,
                   msg    |-> MsgForDuration("New user not allowed to post %s for %s.",
                                             contentType, parsed.d),
                   err    |-> NoMsg]
             ELSE [tooNew |-> FALSE, msg |-> NoMsg, err |-> NoMsg]

\* getUserAndHandleError
getUserAndHandleError(run, env, userID, post) ==
    LET got == GetUserByID(run, env, userID)
    IN  IF got.err
        THEN [user   |-> Nil,
              errMsg |-> Msg("Failed to get user"),
              run    |-> sendUserEphemeralMessageForPost(got.run, post, SomethingWentWrong)]
        ELSE [user |-> got.user, errMsg |-> NoMsg, run |-> got.run]

\* a handleFilterError that rejects without notifying the author
handleFilterErrorSilently(run, err, post) == Reject(run, err)

\* handleFilterError, for the non-nil error it is called with
handleFilterError(run, err, post) ==
    Reject(sendUserEphemeralMessageForPost(run, post, SomethingWentWrong), err)

\* filterNewUserContent
filterNewUserContent(run, env, post, contentType, blockDuration, userMessage) ==
    LET got == getUserAndHandleError(run, env, post.UserId, post)
    IN  IF got.errMsg # NoMsg
        THEN Reject(got.run, got.errMsg)
        ELSE IF isSystemAdmin(got.user)
        THEN Pass(got.run, post)
        ELSE LET age == isUserTooNew(got.user, blockDuration, contentType, env.now)
                 timed == [got.run EXCEPT !.aged = TRUE]
             IN  IF age.err # NoMsg
                 THEN handleFilterError(timed, age.err, post)
                 ELSE IF age.tooNew
                 THEN Reject(sendUserEphemeralMessageForPost(timed, post, userMessage),
                             age.msg)
                 ELSE Pass(timed, post)

\* FilterDirectMessage
FilterDirectMessage(run, env, config, post) ==
    filterNewUserContent(run, env, post, "direct messages", config.BlockNewUserPMTime,
        Msg("Configuration settings limit new users from sending private messages."))

\* FilterNewUserLinks
FilterNewUserLinks(run, env, config, post) ==
    filterNewUserContent(run, env, post, "links", config.BlockNewUserLinksTime,
        Msg("Configuration settings limit new users from posting links."))

\* FilterNewUserImages
FilterNewUserImages(run, env, config, post) ==
    filterNewUserContent(run, env, post, "images", config.BlockNewUserImagesTime,
        Msg("Configuration settings limit new users from posting images."))

\* ------------------------------------------------------------------------
\* The profanity filter (server/user.go)
\* ------------------------------------------------------------------------

\* len(word): the accented letters of the model take two bytes
ByteLen(c) == IF BaseLetter(c) # c THEN 2 ELSE 1

RECURSIVE ByteLength(_)
ByteLength(s) == IF s = << >> THEN 0 ELSE ByteLen(Head(s)) + ByteLength(Tail(s))

\* strings.Repeat
RECURSIVE Repeat(_, _)
Repeat(s, n) == IF n <= 0 THEN << >> ELSE s \o Repeat(s, n - 1)

\* strings.ReplaceAll; an empty old matches before every character and at
\* the end
RECURSIVE ReplaceAll(_, _, _)
ReplaceAll(s, old, new) ==
    IF old = << >>
    THEN IF s = << >> THEN new ELSE new \o << Head(s) >> \o ReplaceAll(Tail(s), old, new)
    ELSE IF s = << >>
    THEN << >>
    ELSE IF MatchesAt(s, old, 1)
    THEN new \o ReplaceAll(SubSeq(s, Len(old) + 1, Len(s)), old, new)
    ELSE << Head(s) >> \o ReplaceAll(Tail(s), old, new)

\* the censoring loop over detectedBadWords
RECURSIVE Censor(_, _, _)
Censor(message, words, censorCharacter) ==
    IF words = << >>
    THEN message
    ELSE Censor(ReplaceAll(message, Head(words),
                           Repeat(censorCharacter, ByteLength(Head(words)))),
                Tail(words), censorCharacter)

\* a FilterPostBadWords that censors whatever RejectPosts says
FilterPostBadWordsCensoring(run, config, post) ==
    LET postMessageWithoutAccents == removeAccents(post.Message)
    IN  IF badWordsRegex = Nil
        THEN Panic(run)
        ELSE IF ~MatchString(badWordsRegex, postMessageWithoutAccents)
        THEN Pass(run, post)
        ELSE Pass(run, [post EXCEPT !.Message =
                           Censor(post.Message,
                                  FindAllString(badWordsRegex, postMessageWithoutAccents),
                                  getConfiguration.CensorCharacter)])

\* FilterPostBadWords; MatchString on a nil *regexp.Regexp panics
FilterPostBadWords(run, config, post) ==
    LET postMessageWithoutAccents == removeAccents(post.Message)
    IN  IF badWordsRegex = Nil
        THEN Panic(run)
        ELSE IF ~MatchString(badWordsRegex, postMessageWithoutAccents)
        THEN Pass(run, post)
        ELSE LET detectedBadWords == FindAllString(badWordsRegex, postMessageWithoutAccents)
             IN  IF config.RejectPosts
                 THEN Reject([run EXCEPT !.eph =
                                Append(@, [UserId    |-> post.UserId,
                                           ChannelId |-> post.ChannelId,
                                           RootId    |-> post.RootId,
                                           Message   |-> MsgWords(config.WarningMessage,
                                                                  detectedBadWords)])],
                             MsgWords("Profane word not allowed: %s", detectedBadWords))
                 ELSE Pass(run, [post EXCEPT !.Message =
                                    Censor(post.Message, detectedBadWords,
                                           getConfiguration.CensorCharacter)])

\* ------------------------------------------------------------------------
\* FilterPost (server/user.go)
\* ------------------------------------------------------------------------

FlaggedNotice ==
    Msg("Your account has been flagged for moderation. Please contact an administrator.")

FlaggedReason == Msg("User account flagged for moderation")

\* the stages in the order FilterPost enters them
StageOrder == << "bot", "blocked", "dm", "images", "links", "badwords" >>

\* FilterPost, from the link stage on
FilterPostLinks(run, env, config, post) ==
    LET linkRun == Stage(run, "links")
    IN  IF config.BlockNewUserLinks /\ containsLinks(post)
        THEN FilterNewUserLinks(linkRun, env, config, post)
        ELSE FilterPostBadWords(Stage(linkRun, "badwords"), config, post)

\* a FilterPost that tries the link gate before the image gate
FilterPostLinksFirst(run, env, config, post) ==
    LET linkRun  == Stage(run, "links")
        imageRun == Stage(linkRun, "images")
    IN  IF config.BlockNewUserLinks /\ containsLinks(post)
        THEN FilterNewUserLinks(linkRun, env, config, post)
        ELSE IF config.BlockNewUserImages /\ containsImages(post)
        THEN FilterNewUserImages(imageRun, env, config, post)
        ELSE FilterPostBadWords(Stage(imageRun, "badwords"), config, post)

\* FilterPost, from the image stage on
FilterPostImages(run, env, config, post) ==
    LET imageRun == Stage(run, "images")
    IN  IF config.BlockNewUserImages /\ containsImages(post)
        THEN FilterNewUserImages(imageRun, env, config, post)
        ELSE FilterPostLinks(imageRun, env, config, post)

\* FilterPost, from the direct-message stage on
FilterPostDirect(run, env, config, post) ==
    LET dmRun == Stage(run, "dm")
    IN  IF config.BlockNewUserPM /\ isDirectMessage(post.ChannelId) = "panic"
        THEN Panic(dmRun)
        ELSE IF config.BlockNewUserPM /\ isDirectMessage(post.ChannelId) = "yes"
        THEN FilterDirectMessage(dmRun, env, config, post)
        ELSE FilterPostImages(dmRun, env, config, post)

\* a FilterPost that checks the author before the bot exemption
FilterPostBlockedFirst(env, post) ==
    LET config  == getConfiguration
        blocked == shouldBlockUserPost(Stage(NewRun, "blocked"), env, post.UserId)
        botRun  == Stage(blocked.run, "bot")
    IN  IF blocked.verdict = "panic"
        THEN Panic(blocked.run)
        ELSE IF blocked.verdict = "block"
        THEN Reject(sendUserEphemeralMessageForPost(blocked.run, post, FlaggedNotice),
                    FlaggedReason)
        ELSE IF config.ExcludeBots /\ post.FromBot
        THEN Pass(botRun, post)
        ELSE FilterPostDirect(botRun, env, config, post)

\* FilterPost
FilterPost(env, post) ==
    LET config == getConfiguration
        botRun == Stage(NewRun, "bot")
    IN  IF config.ExcludeBots /\ post.FromBot
        THEN Pass(botRun, post)
        ELSE LET blocked == shouldBlockUserPost(Stage(botRun, "blocked"), env, post.UserId)
             IN  IF blocked.verdict = "panic"
                 THEN Panic(blocked.run)
                 ELSE IF blocked.verdict = "block"
                 THEN Reject(sendUserEphemeralMessageForPost(blocked.run, post, FlaggedNotice),
                             FlaggedReason)
                 ELSE FilterPostDirect(blocked.run, env, config, post)

\* ------------------------------------------------------------------------
\* Inputs of the model
\* ------------------------------------------------------------------------

Text_1s == << "1", "s" >>

Text_soon == << "s", "o", "o", "n" >>

\* the duration strings an administrator may enter for all three features
DurationStrings == { << >>, Forever, Text_1s }

NoMetadata == Nil

NewPost(userId, channelId, message, fromBot, fileIds, metadata) ==
    [UserId |-> userId, ChannelId |-> channelId, RootId |-> "", Message |-> message,
     FromBot |-> fromBot, FileIds |-> fileIds, Metadata |-> metadata]

Text_hi == << "h", "i" >>

Text_abc_link == << "a", "b", "c", " ", "w", "w", "w", ".", "x" >>

Text_abc_image == << "a", "b", "c", " ", "!", "[", "]", "(", "w", "w", "w", ".", "x", ")" >>

Messages == { Text_hi, Text_abc, Text_abc_link, Text_abc_image }

CleanUserIds == {"bob", "ann"}

\* the posts submitted to the hooks: every message in both channels by the
\* clean accounts, a few posts by each of the other accounts, posts of
\* integrations, and posts with attachments, embeds or an unknown channel
Posts ==
    { NewPost(u, c, m, FALSE, << >>, NoMetadata) :
          u \in CleanUserIds, c \in {"dm", "town"}, m \in Messages }
    \cup { NewPost(u, "dm", Text_abc_image, FALSE, << >>, NoMetadata) : u \in UserIds }
    \cup { NewPost(u, "town", Text_abc_link, TRUE, << >>, NoMetadata) : u \in UserIds }
    \cup { NewPost("bob", "town", Text_hi, FALSE, << "doc", "lost", "pic" >>, NoMetadata),
           NewPost("bob", "town", Text_abc, FALSE, << >>,
                   [Files |-> << >>, Images |-> 0, Embeds |-> 1]),
           NewPost("bob", "lost", Text_hi, FALSE, << >>, NoMetadata) }

DefaultEnv == [fetchOK |-> [i \in 1..2 |-> TRUE], now |-> 0]

FetchOutcomes == [1..2 -> BOOLEAN]

BaseConfiguration ==
    [EmptyConfiguration EXCEPT
        !.BadDomainsList   = Text_badcom,
        !.BadUsernamesList = Text_hate,
        !.BuiltinBadDomains = TRUE,
        !.BadWordsList     = Text_abc,
        !.CensorCharacter  = Text_star,
        !.WarningMessage   = "Your post has been rejected: %s"]

\* the configurations LoadPluginConfiguration may deliver: the word lists
\* of BaseConfiguration with every combination of the feature toggles and
\* one duration string for the three features ...
ToggledConfigurations ==
    { [BaseConfiguration EXCEPT
          !.BlockNewUserPM         = g[1],
          !.BlockNewUserPMTime     = d,
          !.BlockNewUserImages     = g[2],
          !.BlockNewUserImagesTime = d,
          !.BlockNewUserLinks      = g[3],
          !.BlockNewUserLinksTime  = d,
          !.ExcludeBots            = mode[1],
          !.RejectPosts            = mode[2]] :
        g \in [1..3 -> BOOLEAN], d \in DurationStrings,
        mode \in { << FALSE, FALSE >>, << FALSE, TRUE >>, << TRUE, FALSE >> } }

\* ... and configurations that do not validate or do not compile, or that
\* have no word list
OddConfigurations ==
    { [BaseConfiguration EXCEPT !.BlockNewUserPMTime = Text_soon],
      [BaseConfiguration EXCEPT !.BadWordsList = << "(" >>],
      [BaseConfiguration EXCEPT !.BadUsernamesList = << "(" >>],
      [BaseConfiguration EXCEPT !.BadWordsList = << >>, !.BadDomainsList = << >>,
                                !.BadUsernamesList = << >>, !.BuiltinBadDomains = FALSE] }

LoadableConfigurations == ToggledConfigurations \cup OddConfigurations

\* ------------------------------------------------------------------------
\* Actions
\* ------------------------------------------------------------------------

Idle == [hook |-> "none"]

Init ==
    /\ configuration = Nil
    /\ badWordsRegex = Nil
    /\ badDomainsRegex = Nil
    /\ badUsernamesRegex = Nil
    /\ badDomainsList = Nil
    /\ cache = Nil
    /\ users = InitialUsers
    /\ last = Idle
    /\ goroutines = NoGoroutines
    /\ history = NoHistory
    /\ teamMembers = {}
    /\ heap = NoObjects

\* the fields OnConfigurationChange leaves behind, and the error it returns,
\* for the configuration `loaded` that LoadPluginConfiguration delivers, or
\* its failure: it returns at the first step that fails, keeping what the
\* steps before have assigned
Reloaded(loaded, loadOK) ==
    LET durationsOK ==
            /\ validateDurationConfig(loaded.BlockNewUserPMTime)
            /\ validateDurationConfig(loaded.BlockNewUserLinksTime)
            /\ validateDurationConfig(loaded.BlockNewUserImagesTime)
        words     == splitWordListToRegex(loaded.BadWordsList, defaultRegexTemplate)
        domains   == splitWordListToRegex(loaded.BadDomainsList, bareRegexTemplate)
        usernames == splitWordListToRegex(loaded.BadUsernamesList, bareRegexTemplate)
        set       == loadOK /\ durationsOK
        step1     == set /\ ~words.err
        step2     == step1 /\ ~domains.err
        step3     == step2 /\ ~usernames.err
    IN  [configuration     |-> IF set THEN loaded ELSE configuration,
         cache             |-> IF set /\ cache = Nil
                               THEN NewLRUCache(CacheCapacity) ELSE cache,
         badWordsRegex     |-> IF step1 THEN words.regex ELSE badWordsRegex,
         badDomainsRegex   |-> IF step2 THEN domains.regex ELSE badDomainsRegex,
         badUsernamesRegex |-> IF step3 THEN usernames.regex ELSE badUsernamesRegex,
         badDomainsList    |-> IF step3 THEN [slice |-> builtinDomainList]
                               ELSE badDomainsList,
         err               |-> ~step3]

\* OnConfigurationChange
OnConfigurationChange(loaded, loadOK) ==
    /\ last = Idle
    /\ \E after \in {Reloaded(loaded, loadOK)} :
          /\ configuration' = after.configuration
          /\ cache' = after.cache
          /\ badWordsRegex' = after.badWordsRegex
          /\ badDomainsRegex' = after.badDomainsRegex
          /\ badUsernamesRegex' = after.badUsernamesRegex
          /\ badDomainsList' = after.badDomainsList
          /\ last' = [hook |-> "OnConfigurationChange", err |-> after.err]
    /\ UNCHANGED << users, goroutines, history, teamMembers, heap >>

\* the environments that differ in what a run of FilterPost on post reads:
\* the outcomes of the p.API.GetUser calls it makes and the time, if it gets
\* to isUserTooNew
EnvsOf(post) ==
    UNION { { [fetchOK |-> probe.fetchOK, now |-> n] :
                n \in IF probe.run.aged THEN 0..MaxNow ELSE {0} } :
            probe \in { pr \in { [fetchOK |-> f,
                                  run     |-> FilterPost([fetchOK |-> f, now |-> 0],
                                                         post).run] :
                                    f \in FetchOutcomes } :
                          \A i \in 1..2 : i > pr.run.fetched => pr.fetchOK[i] } }

\* MessageWillBePosted (and MessageWillBeUpdated, which runs the same
\* FilterPost on the new post); last.before is the cache the hook found,
\* last.ret what FilterPost returned and the run it made
MessageWillBePosted(post, env) ==
    /\ last = Idle
    /\ last' = [hook |-> "FilterPost", post |-> post, env |-> env, before |-> cache,
                ret  |-> FilterPost(env, post)]
    /\ cache' = last'.ret.run.cache
    /\ UNCHANGED << configuration, badWordsRegex, badDomainsRegex, badUsernamesRegex,
                    badDomainsList, users, goroutines, history, teamMembers, heap >>

\* the hook returns to the server
HookReturns ==
    /\ last # Idle
    /\ last' = Idle
    /\ UNCHANGED << configuration, badWordsRegex, badDomainsRegex, badUsernamesRegex,
                    badDomainsList, cache, users, goroutines, history, teamMembers, heap >>

\* the server calls one hook at a time and waits for it
Next ==
    \/ /\ last = Idle
       /\ \E loaded \in LoadableConfigurations : OnConfigurationChange(loaded, TRUE)
    \/ /\ last = Idle
       /\ OnConfigurationChange(EmptyConfiguration, FALSE)
    \/ /\ last = Idle
       /\ \E post \in Posts : \E env \in EnvsOf(post) : MessageWillBePosted(post, env)
    \/ HookReturns

Spec == Init /\ [][Next]_vars

\* ------------------------------------------------------------------------
\* Vocabulary of the properties: what a state tells about the FilterPost
\* that has just run
\* ------------------------------------------------------------------------

Filtered == last.hook = "FilterPost"

Trace == last.ret.run.trace

LastStage == Trace[Len(Trace)]

Entered(stage) == \E i \in 1..Len(Trace) : Trace[i] = stage

\* the hook found the author in the cache
CacheHit == last.before # Nil /\ last.post.UserId \in DOMAIN last.before.cache

\* the author record a successful lookup yields
AuthorRecord ==
    IF CacheHit THEN last.before.cache[last.post.UserId].user ELSE users[last.post.UserId]

\* the lookup of the blocked-author check: a cache miss and a failed fetch
FirstLookupFailed == ~CacheHit /\ ~last.env.fetchOK[1]

\* the lookup of a new-account gate: after a successful first lookup the
\* record is in the cache, unless there is no cache
GateLookupFailed ==
    /\ ~CacheHit
    /\ ~last.env.fetchOK[1] \/ last.before = Nil
    /\ ~last.env.fetchOK[2]

\* the moderation rules as the rules in force state them
BadName(user) ==
    /\ badUsernamesRegex # Nil
    /\ \/ MatchString(badUsernamesRegex, user.Username)
       \/ MatchString(badUsernamesRegex, user.Nickname)

BadDomain(user) ==
    /\ HasDomain(user.Email)
    /\ \/ /\ getConfiguration.BuiltinBadDomains
          /\ \E i \in 1..Len(builtinDomainList) : builtinDomainList[i] = DomainOf(user.Email)
       \/ /\ badDomainsRegex # Nil
          /\ MatchString(badDomainsRegex, DomainOf(user.Email))

Flagged(user) == user.DeleteAt > 0 \/ BadName(user) \/ BadDomain(user)

Administrator(user) == Contains(user.Roles, Text_system_admin)

BotExempt == getConfiguration.ExcludeBots /\ last.post.FromBot

IsDirect ==
    /\ last.post.ChannelId \in DOMAIN Channels
    /\ Channels[last.post.ChannelId] = ChannelTypeDirect

GateStages == {"dm", "images", "links"}

GateToggle(stage) ==
    CASE stage = "dm"     -> getConfiguration.BlockNewUserPM
      [] stage = "images" -> getConfiguration.BlockNewUserImages
      [] stage = "links"  -> getConfiguration.BlockNewUserLinks

GateTime(stage) ==
    CASE stage = "dm"     -> getConfiguration.BlockNewUserPMTime
      [] stage = "images" -> getConfiguration.BlockNewUserImagesTime
      [] stage = "links"  -> getConfiguration.BlockNewUserLinksTime

GateContent(stage) ==
    CASE stage = "dm"     -> "direct messages"
      [] stage = "images" -> "images"
      [] stage = "links"  -> "links"

\* the condition under which FilterPost stops at a stage
StageHolds(stage) ==
    CASE stage = "bot"      -> BotExempt
      [] stage = "blocked"  -> ~FirstLookupFailed /\ Flagged(AuthorRecord)
      [] stage = "dm"       -> GateToggle("dm") /\ IsDirect
      [] stage = "images"   -> GateToggle("images") /\ containsImages(last.post)
      [] stage = "links"    -> GateToggle("links") /\ containsLinks(last.post)
      [] stage = "badwords" -> TRUE

\* FilterPost stopped in a new-account gate, which returned
GateApplied == Filtered /\ LastStage \in GateStages /\ last.ret.kind # "panic"

Age == last.env.now - AuthorRecord.CreateAt

Notified(message) ==
    \E i \in 1..Len(last.ret.run.eph) :
        last.ret.run.eph[i] = [UserId    |-> last.post.UserId,
                               ChannelId |-> last.post.ChannelId,
                               RootId    |-> last.post.RootId,
                               Message   |-> message]

\* what each stage can return
StageResult(stage) ==
    CASE stage = "bot" ->
            /\ last.ret.kind = "pass"
            /\ last.ret.post = last.post
            /\ last.ret.run.eph = << >>
            /\ last.ret.run.fetched = 0
      [] stage = "blocked" ->
            /\ last.ret.kind = "reject"
            /\ last.ret.reason = FlaggedReason
            /\ Notified(FlaggedNotice)
      [] stage \in GateStages ->
            \/ last.ret.kind = "pass" /\ last.ret.post = last.post
            \/ /\ last.ret.kind = "reject"
               /\ last.ret.reason.contentType \in {"", GateContent(stage)}
               /\ last.ret.reason.text \in
                     {"Failed to get user", "failed to parse duration: %w",
                      "New user not allowed to post %s indefinitely.",
                      "New user not allowed to post %s for %s."}
      [] stage = "badwords" ->
            \/ last.ret.kind = "pass" /\ last.ret.post.UserId = last.post.UserId
            \/ /\ last.ret.kind = "reject"
               /\ last.ret.reason.text = "Profane word not allowed: %s"

\* ------------------------------------------------------------------------
\* Properties
\* ------------------------------------------------------------------------

\* C1: FilterPost enters its stages in the order bot exemption, blocked
\* author, direct-message gate, image gate, link gate, profanity filter; the
\* conditions of the stages it went past do not hold, the condition of the
\* stage it stops at holds, and what it returns is what that stage returns:
\* no later stage is entered.  A bot post under ExcludeBots stops at the
\* first stage and is returned unchanged, without a lookup of its author.
C1_StagesInOrder ==
    Filtered =>
        /\ \E n \in 1..Len(StageOrder) : Trace = SubSeq(StageOrder, 1, n)
        /\ \A i \in 1..(Len(Trace) - 1) : ~StageHolds(Trace[i])
        /\ last.ret.kind # "panic" => StageHolds(LastStage) /\ StageResult(LastStage)

\* C1 witness: a bot post of a flagged author under ExcludeBots came back
\* unchanged
C1_Witness ==
    /\ Filtered
    /\ BotExempt
    /\ Flagged(users[last.post.UserId])
    /\ Trace = << "bot" >>
    /\ last.ret.kind = "pass"
    /\ last.ret.post = last.post

\* C2: a post that is not bot-exempt, whose author record is resolved and is
\* soft-deleted or has a bad username, nickname or email domain, is rejected
\* with the flagged-for-moderation reason.  The code does not keep this:
\* when a reload has stopped at a word list that does not compile before
\* p.badDomainsList was ever set (the partial reload of C22), checkBadEmail
\* dereferences the nil list and FilterPost returns nothing.
C2_FlaggedAuthorRejected ==
    (Filtered /\ ~BotExempt /\ ~FirstLookupFailed /\ Flagged(AuthorRecord)) =>
        /\ last.ret.kind = "reject"
        /\ last.ret.reason = FlaggedReason

\* C2, where it does hold: once a reload has run to its end, so that
\* p.badDomainsList is set, every such post is rejected
C2_FlaggedAuthorRejectedOnceLoaded ==
    (Filtered /\ ~BotExempt /\ ~FirstLookupFailed /\ Flagged(AuthorRecord)
        /\ badDomainsList # Nil) =>
        /\ last.ret.kind = "reject"
        /\ last.ret.reason = FlaggedReason
        /\ Notified(FlaggedNotice)

\* the case of C2_FlaggedAuthorRejectedOnceLoaded: a flagged author posted an
\* image link with a listed word as a direct message while every gate was on
C2_OnceLoadedWitness ==
    /\ Filtered
    /\ ~BotExempt
    /\ ~FirstLookupFailed
    /\ BadDomain(AuthorRecord)
    /\ badDomainsList # Nil
    /\ \A stage \in GateStages : GateToggle(stage)
    /\ IsDirect
    /\ last.ret.reason = FlaggedReason

GateOnRegularAuthor ==
    GateApplied /\ ~GateLookupFailed /\ ~Administrator(AuthorRecord)

\* C4: in a new-account gate with a duration d that parses, an author who
\* is not an administrator is rejected exactly when the account's age is
\* less than d, with the reason that names the content and d; at an age
\* equal to d the post passes unchanged.
C4_RejectedIffYoungerThanDuration ==
    (GateOnRegularAuthor /\ ~ParseDuration(GateTime(LastStage)).err) =>
        /\ last.ret.kind = "reject" <=> Age < ParseDuration(GateTime(LastStage)).d
        /\ last.ret.kind = "reject" =>
              last.ret.reason =
                  MsgForDuration("New user not allowed to post %s for %s.",
                                 GateContent(LastStage),
                                 ParseDuration(GateTime(LastStage)).d)
        /\ last.ret.kind # "reject" => last.ret.kind = "pass" /\ last.ret.post = last.post

\* C4 witness: an account exactly as old as the duration posted through a
\* gate
C4_Witness ==
    /\ GateOnRegularAuthor
    /\ ~ParseDuration(GateTime(LastStage)).err
    /\ ParseDuration(GateTime(LastStage)).d > 0
    /\ Age = ParseDuration(GateTime(LastStage)).d
    /\ last.ret.kind = "pass"

\* C5: with the duration "-1" a new-account gate rejects every author who is
\* not an administrator, at every age, with the reason that the content is
\* not allowed indefinitely, and notifies the author of the limit.
C5_ForeverRejectsAtEveryAge ==
    (GateOnRegularAuthor /\ GateTime(LastStage) = Forever) =>
        /\ last.ret.kind = "reject"
        /\ last.ret.reason = MsgFor("New user not allowed to post %s indefinitely.",
                                    GateContent(LastStage))
        /\ Len(last.ret.run.eph) = 1

\* C5 witness: an account older than every duration of the model was
\* rejected under "-1"
C5_Witness ==
    /\ GateOnRegularAuthor
    /\ GateTime(LastStage) = Forever
    /\ Age = MaxNow
    /\ last.ret.kind = "reject"

C7_EmptyDurationRejectsNothing ==
    (GateApplied /\ ~GateLookupFailed /\ GateTime(LastStage) = << >>) =>
        last.ret.kind # "reject"

\* C8: an author whose role string contains system_admin passes every
\* new-account gate with the post unchanged and without a notice, at every
\* age and for every duration, "-1" included.
C8_AdministratorPassesGates ==
    (GateApplied /\ ~GateLookupFailed /\ Administrator(AuthorRecord)) =>
        /\ last.ret.kind = "pass"
        /\ last.ret.post = last.post
        /\ last.ret.run.eph = << >>

\* C8 witness: an author with the roles "system_user system_admin" passed a
\* gate whose duration is "-1"
C8_Witness ==
    /\ GateApplied
    /\ ~GateLookupFailed
    /\ Administrator(AuthorRecord)
    /\ AuthorRecord.Roles # Text_system_admin
    /\ GateTime(LastStage) = Forever
    /\ last.ret.kind = "pass"

\* C9: a post of a resolved, unflagged administrator that contains a listed
\* word is censored or rejected by the profanity filter, also when it is a
\* direct message, an image post or a link post whose blocking is on.  The
\* code does not keep this: a gate returns the administrator's post as it
\* is and FilterPost returns what the gate returns.
C9_AdministratorStillFiltered ==
    (Filtered /\ last.ret.kind # "panic" /\ ~BotExempt /\ ~FirstLookupFailed
        /\ Administrator(AuthorRecord) /\ ~Flagged(AuthorRecord)
        /\ badWordsRegex # Nil
        /\ MatchString(badWordsRegex, removeAccents(last.post.Message))) =>
        \/ last.ret.kind = "reject"
        \/ last.ret.kind = "pass" /\ last.ret.post.Message # last.post.Message

\* an author a gate finds too new: the duration is "-1", or parses and
\* exceeds the age
TooNewFor(stage) ==
    \/ GateTime(stage) = Forever
    \/ /\ ~ParseDuration(GateTime(stage)).err
       /\ Age < ParseDuration(GateTime(stage)).d

ImageAndLinkPost ==
    /\ Filtered
    /\ GateToggle("images")
    /\ GateToggle("links")
    /\ containsImages(last.post)
    /\ containsLinks(last.post)

NoWordList ==
    /\ configuration # Nil
    /\ configuration.BadWordsList = << >>
    /\ badWordsRegex = Nil

\* C11: with an empty bad-words list, for which no regex is compiled, the
\* profanity filter passes every post it gets through unchanged and does
\* not fail.  The code does not keep this: FilterPostBadWords calls
\* MatchString on the nil regex, which panics.
C11_EmptyWordListPassesUnchanged ==
    (Filtered /\ NoWordList /\ LastStage = "badwords") =>
        /\ last.ret.kind = "pass"
        /\ last.ret.post = last.post

\* ------------------------------------------------------------------------
\* The profanity filter under word lists and messages of its own
\* ------------------------------------------------------------------------

Text_defghi_abc == << "d", "e", "f", " ", "g", "h", "i", ",", "a", "b", "c" >>

Text_abcde_abc == << "a", "b", "c", " ", "d", "e", ",", "a", "b", "c" >>

\* the word list of the tests, a single word, and a list with a phrase that
\* begins with another listed word
WordLists == { Text_abc, Text_defghi_abc, Text_abcde_abc }

WordConfigurations ==
    { [EmptyConfiguration EXCEPT
          !.BadWordsList    = w,
          !.CensorCharacter = Text_star,
          !.WarningMessage  = "Your post has been rejected: %s",
          !.RejectPosts     = r] : w \in WordLists, r \in BOOLEAN }

Text_123_abc_456 == << "1", "2", "3", " ", "a", "b", "c", " ", "4", "5", "6" >>

Text_ABC_AbC == << "A", "B", "C", " ", "A", "b", "C" >>

Text_abchello == << "a", "b", "c", "h", "e", "l", "l", "o" >>

Text_abc_abchello == << "a", "b", "c", " ", "a", "b", "c", "h", "e", "l", "l", "o" >>

Text_abc_abc_de == << "a", "b", "c", " ", "a", "b", "c", " ", "d", "e" >>

Text_def_ghi == << "d", "e", "f", " ", "g", "h", "i" >>

Text_abc_accented == << "â", "b", "c" >>

Text_abc_both == << "a", "b", "c", " ", "â", "b", "c" >>

WordMessages ==
    { Text_hi, Text_123_abc_456, Text_ABC_AbC, Text_abchello, Text_abc_abchello,
      Text_abc_abc_de, Text_def_ghi, Text_abc_accented, Text_abc_both }

WordPosts ==
    { NewPost(u, "town", m, FALSE, << >>, NoMetadata) :
          u \in CleanUserIds, m \in WordMessages }

NextWords ==
    \/ /\ last = Idle
       /\ \E loaded \in WordConfigurations : OnConfigurationChange(loaded, TRUE)
    \/ /\ last = Idle
       /\ \E post \in WordPosts : \E env \in EnvsOf(post) : MessageWillBePosted(post, env)
    \/ HookReturns

SpecWords == Init /\ [][NextWords]_vars

\* the profanity filter has handled the post under a compiled word list
Profanity ==
    /\ Filtered
    /\ LastStage = "badwords"
    /\ badWordsRegex # Nil
    /\ last.ret.kind # "panic"

CensorMode == ~getConfiguration.RejectPosts

\* the message is written without diacritics
Plain(message) == removeAccents(message) = message

\* the listed words and phrases
Listed ==
    LET split == Split(getConfiguration.BadWordsList, ",")
    IN  { TrimSpace(split[i]) : i \in 1..Len(split) }

\* the listed word w stands at position i of text, whatever the case, with
\* no word character before or after it
StandaloneAt(text, w, i) ==
    /\ i + Len(w) - 1 <= Len(text)
    /\ \A j \in 1..Len(w) : ToLower(text[i + j - 1]) = ToLower(w[j])
    /\ ~(IsWordChar(text, i - 1) /\ IsWordChar(text, i))
    /\ ~(IsWordChar(text, i + Len(w) - 1) /\ IsWordChar(text, i + Len(w)))

\* position i of text lies in a standalone occurrence of a listed word
Covered(text, i) ==
    \E w \in Listed : \E start \in 1..i :
        /\ i < start + Len(w)
        /\ StandaloneAt(text, w, start)

CensorCharacterOf == getConfiguration.CensorCharacter[1]

\* C12: in censor mode, in a message without diacritics, every standalone
\* occurrence of a listed word or phrase, in any case, comes out as a run of
\* the censor character of its length, and the post is passed.  The code
\* does not keep this when a listed phrase begins with another listed word
\* and follows an occurrence of that word.
C12_StandaloneOccurrencesCensored ==
    (Profanity /\ CensorMode /\ Plain(last.post.Message)) =>
        /\ last.ret.kind = "pass"
        /\ Len(last.ret.post.Message) = Len(last.post.Message)
        /\ \A i \in 1..Len(last.post.Message) :
              Covered(last.post.Message, i) =>
                  last.ret.post.Message[i] = CensorCharacterOf

\* C13: in censor mode, a listed word written with diacritics in the message
\* is found through accent stripping, and that occurrence of the original
\* message comes out as a run of the censor character.  The code does not
\* keep this: it looks for the stripped word in the original message.
C13_AccentedOccurrencesCensored ==
    (Profanity /\ CensorMode /\ ~Plain(last.post.Message)) =>
        /\ last.ret.kind = "pass"
        /\ \A i \in 1..Len(last.post.Message) :
              (/\ Covered(removeAccents(last.post.Message), i)
               /\ i <= Len(last.ret.post.Message)) =>
                  last.ret.post.Message[i] = CensorCharacterOf

\* C14: censoring leaves every character outside the standalone occurrences
\* as it was, the same letters inside a larger word included, also when the
\* message holds a standalone occurrence of that word.  The code does not
\* keep this: it replaces every occurrence of a matched word's text.
C14_OnlyStandaloneOccurrencesChange ==
    (Profanity /\ CensorMode /\ Plain(last.post.Message)) =>
        /\ last.ret.kind = "pass"
        /\ Len(last.ret.post.Message) = Len(last.post.Message)
        /\ \A i \in 1..Len(last.post.Message) :
              ~Covered(last.post.Message, i) =>
                  last.ret.post.Message[i] = last.post.Message[i]

\* the words the bad-words regex finds in the message without its accents
Detected == FindAllString(badWordsRegex, removeAccents(last.post.Message))

\* C15: in reject mode a post in which the bad-words regex matches is
\* rejected: no post is returned, the reason is not empty, and the author
\* is sent one ephemeral notice, the warning template filled with the
\* matched words joined by ", "; the message is never censored and passed.
C15_RejectModeRejects ==
    (Profanity /\ ~CensorMode
        /\ MatchString(badWordsRegex, removeAccents(last.post.Message))) =>
        /\ last.ret.kind = "reject"
        /\ last.ret.post = Nil
        /\ last.ret.reason = MsgWords("Profane word not allowed: %s", Detected)
        /\ last.ret.run.eph =
              << [UserId    |-> last.post.UserId,
                  ChannelId |-> last.post.ChannelId,
                  RootId    |-> last.post.RootId,
                  Message   |-> MsgWords(getConfiguration.WarningMessage, Detected)] >>

\* C15 witness: a post with two occurrences of a listed word was rejected
C15_Witness ==
    /\ Profanity
    /\ ~CensorMode
    /\ Len(Detected) = 2
    /\ last.ret.kind = "reject"
    /\ Len(last.ret.run.eph) = 1

\* ------------------------------------------------------------------------
\* The LRUCache on its own: Put, Get and Remove, one call after the other
\* ------------------------------------------------------------------------

\* the caches of the model have a capacity of 1..MaxCapacity
MaxCapacity == 2

CacheKeys == {"bob", "ann", "nick"}

\* the values stored for a key: the user record, active or deactivated
Snapshots(key) == { InitialUsers[key], [InitialUsers[key] EXCEPT !.DeleteAt = 1] }

InitCache ==
    /\ configuration = Nil
    /\ badWordsRegex = Nil
    /\ badDomainsRegex = Nil
    /\ badUsernamesRegex = Nil
    /\ badDomainsList = Nil
    /\ cache \in { NewLRUCache(capacity) : capacity \in 1..MaxCapacity }
    /\ users = InitialUsers
    /\ last = Idle
    /\ goroutines = NoGoroutines
    /\ history = NoHistory
    /\ teamMembers = {}
    /\ heap = NoObjects

Without(keys, key) == SelectSeq(keys, LAMBDA k : k # key)

\* the keys of history.uses after a use of key that leaves the entries `kept`
UsedIn(kept, key) ==
    SelectSeq(Append(Without(history.uses, key), key), LAMBDA k : k \in kept)

\* the call before this one
Previous ==
    IF last = Idle
    THEN [hook |-> "none", key |-> "", found |-> FALSE]
    ELSE [hook |-> last.hook, key |-> last.key, found |-> last.found]

\* c.Put(key, user); the range of evictOldest visits the keys in `order`
CachePut(key, user, order) ==
    /\ \E after \in { LRUPut(cache, key, user, order) } :
          /\ cache' = after
          /\ history' = [history EXCEPT !.uses = UsedIn(DOMAIN after.cache, key)]
    /\ last' = [hook |-> "Put", key |-> key, user |-> user, found |-> FALSE,
                before |-> cache, uses |-> history.uses, prev |-> Previous]
    /\ UNCHANGED << configuration, badWordsRegex, badDomainsRegex, badUsernamesRegex,
                    badDomainsList, users, goroutines, teamMembers, heap >>

\* c.Get(key)
CacheGet(key) ==
    /\ \E got \in { LRUGet(cache, key) } :
          /\ cache' = got.c
          /\ history' = IF got.found
                        THEN [history EXCEPT !.uses = UsedIn(DOMAIN got.c.cache, key)]
                        ELSE history
          /\ last' = [hook |-> "Get", key |-> key, user |-> got.user, found |-> got.found,
                      before |-> cache, uses |-> history.uses, prev |-> Previous]
    /\ UNCHANGED << configuration, badWordsRegex, badDomainsRegex, badUsernamesRegex,
                    badDomainsList, users, goroutines, teamMembers, heap >>

\* c.Remove(key)
CacheRemove(key) ==
    /\ cache' = LRURemove(cache, key)
    /\ history' = [history EXCEPT !.uses = Without(@, key)]
    /\ last' = [hook |-> "Remove", key |-> key, user |-> EmptyUser, found |-> FALSE,
                before |-> cache, uses |-> history.uses, prev |-> Previous]
    /\ UNCHANGED << configuration, badWordsRegex, badDomainsRegex, badUsernamesRegex,
                    badDomainsList, users, goroutines, teamMembers, heap >>

NextCache ==
    \/ \E key \in CacheKeys : \E user \in Snapshots(key) :
          \E order \in IterationOrders(cache.cache) : CachePut(key, user, order)
    \/ \E key \in CacheKeys : CacheGet(key)
    \/ \E key \in CacheKeys : CacheRemove(key)

SpecCache == InitCache /\ [][NextCache]_vars

\* the keys in the cache, and in the cache the last call found
Keys == DOMAIN cache.cache

KeysBefore == DOMAIN last.before.cache

\* the last call was a Put of a key that was not cached, into a full cache
InsertedIntoFull ==
    /\ last # Idle
    /\ last.hook = "Put"
    /\ last.key \notin KeysBefore
    /\ Cardinality(KeysBefore) >= last.before.capacity

\* C16: a Put of a new key into a full cache evicts the entry that has gone
\* longest without a Get hit or a Put, and no other: the other entries stay
\* with their values.
C16_EvictsLeastRecentlyUsed ==
    InsertedIntoFull =>
        /\ Keys = (KeysBefore \ {Head(last.uses)}) \cup {last.key}
        /\ \A k \in Keys \ {last.key} : cache.cache[k].user = last.before.cache[k].user

\* C16 witness: in a full cache of capacity 2 a key was read, and the next
\* new key evicted the other key, the one with the earlier stamp
C16_Witness ==
    /\ InsertedIntoFull
    /\ last.before.capacity = 2
    /\ last.prev.hook = "Get"
    /\ last.prev.found
    /\ Head(last.uses) # last.prev.key
    /\ last.before.cache[Head(last.uses)].lastAccess = 1
    /\ Head(last.uses) \notin Keys

\* C17: a Get hit makes its key the most recently used entry, and with a
\* capacity of at least 2 the next insertion of a new key into the full
\* cache does not evict it.
C17_GetHitRefreshesRecency ==
    /\ (last # Idle /\ last.hook = "Get" /\ last.found) =>
          /\ last.key \in Keys
          /\ \A k \in Keys : cache.cache[k].lastAccess <= cache.cache[last.key].lastAccess
    /\ (InsertedIntoFull /\ last.before.capacity >= 2
            /\ last.prev.hook = "Get" /\ last.prev.found) =>
          last.prev.key \in Keys

\* C17 witness: a key was read and then survived the insertion of a new key
\* into the full cache, with its value
C17_Witness ==
    /\ InsertedIntoFull
    /\ last.before.capacity >= 2
    /\ last.prev.hook = "Get"
    /\ last.prev.found
    /\ last.prev.key \in Keys
    /\ cache.cache[last.prev.key].user = last.before.cache[last.prev.key].user
    /\ Cardinality(Keys) = cache.capacity

\* C18: the cache never holds more entries than its capacity, and a Put of
\* a cached key stores the new value in place: the same keys stay, the
\* other entries keep their values.
C18_NeverOverCapacity ==
    /\ Cardinality(Keys) <= cache.capacity
    /\ (last # Idle /\ last.hook = "Put" /\ last.key \in KeysBefore) =>
          /\ Keys = KeysBefore
          /\ cache.cache[last.key].user = last.user
          /\ \A k \in Keys \ {last.key} :
                cache.cache[k].user = last.before.cache[k].user

\* C18 witness: a Put replaced the value of a cached key in a full cache
C18_Witness ==
    /\ last # Idle
    /\ last.hook = "Put"
    /\ last.key \in KeysBefore
    /\ Cardinality(KeysBefore) = last.before.capacity
    /\ last.before.cache[last.key].user # last.user
    /\ cache.cache[last.key].user = last.user

\* ------------------------------------------------------------------------
\* Calls on concurrent goroutines
\* ------------------------------------------------------------------------

\* the number of goroutines
NumGoroutines == 3

Goroutines == 1..NumGoroutines

\* a goroutine that has not made its call yet
Ready ==
    [op |-> "none", key |-> "", pc |-> "ready", user |-> EmptyUser,
     found |-> FALSE, detached |-> FALSE, late |-> FALSE]

Calling(op, key, pc, user) ==
    [op |-> op, key |-> key, pc |-> pc, user |-> user,
     found |-> FALSE, detached |-> FALSE, late |-> key \in history.cleaned]

\* Each section of the code between Lock (or RLock) and Unlock is one step:
\* the lock keeps every other section out, and no section waits inside.

\* Get, first section: entry, found := c.cache[key] under the read lock.  A
\* miss ends Get; in GetUserByID the fetch is next.  On a hit the goroutine
\* holds the pointer to the entry.
GetLookup(g) ==
    /\ goroutines[g].pc = "lookup"
    /\ goroutines' = [goroutines EXCEPT ![g] =
          IF @.key \in DOMAIN cache.cache
          THEN [@ EXCEPT !.pc = "stamp"]
          ELSE IF @.op = "Get"
          THEN [@ EXCEPT !.pc = "done"]
          ELSE [@ EXCEPT !.pc = "fetch"]]
    /\ UNCHANGED << configuration, badWordsRegex, badDomainsRegex, badUsernamesRegex,
                    badDomainsList, cache, users, last, history, teamMembers, heap >>

\* a second section that puts the entry it holds back into the map
GetStampReinserting(g) ==
    /\ goroutines[g].pc = "stamp"
    /\ IF goroutines[g].detached
       THEN /\ cache' = LRUPutUnbounded(cache, goroutines[g].key, goroutines[g].user,
                                        << >>)
            /\ goroutines' = [goroutines EXCEPT ![g].pc = "done", ![g].found = TRUE]
       ELSE /\ cache' = LRUGet(cache, goroutines[g].key).c
            /\ goroutines' = [goroutines EXCEPT
                                 ![g].pc = "done",
                                 ![g].found = TRUE,
                                 ![g].user = cache.cache[goroutines[g].key].user]
    /\ UNCHANGED << configuration, badWordsRegex, badDomainsRegex, badUsernamesRegex,
                    badDomainsList, users, last, history, teamMembers, heap >>

\* Get, second section: entry.lastAccess = time.Now(); return entry.user,
\* true.  The entry is the one the first section found: when it has left the
\* map since (detached), the stamp and the user are those of the entry that
\* left.
GetStamp(g) ==
    /\ goroutines[g].pc = "stamp"
    /\ IF goroutines[g].detached
       THEN /\ cache' = cache
            /\ goroutines' = [goroutines EXCEPT ![g].pc = "done", ![g].found = TRUE]
       ELSE /\ cache' = LRUGet(cache, goroutines[g].key).c
            /\ goroutines' = [goroutines EXCEPT
                                 ![g].pc = "done",
                                 ![g].found = TRUE,
                                 ![g].user = cache.cache[goroutines[g].key].user]
    /\ UNCHANGED << configuration, badWordsRegex, badDomainsRegex, badUsernamesRegex,
                    badDomainsList, users, last, history, teamMembers, heap >>

\* the goroutines after the entries of the keys `gone` have left the map:
\* those that hold one of them keep it, with the user it had
Detach(gone) ==
    [h \in DOMAIN goroutines |->
        IF goroutines[h].pc = "stamp" /\ ~goroutines[h].detached
              /\ goroutines[h].key \in gone
        THEN [goroutines[h] EXCEPT !.detached = TRUE,
                                   !.user = cache.cache[goroutines[h].key].user]
        ELSE goroutines[h]]

\* Put, one section under the lock
PutStep(g, order) ==
    /\ goroutines[g].pc = "put"
    /\ \E after \in { LRUPut(cache, goroutines[g].key, goroutines[g].user, order) } :
          /\ cache' = after
          /\ goroutines' = [Detach(DOMAIN cache.cache \ DOMAIN after.cache)
                               EXCEPT ![g].pc = "done", ![g].found = TRUE]
    /\ UNCHANGED << configuration, badWordsRegex, badDomainsRegex, badUsernamesRegex,
                    badDomainsList, users, last, history, teamMembers, heap >>

\* go cache.Get(key)
GoGet(g, key) ==
    /\ goroutines[g].pc = "ready"
    /\ goroutines' = [goroutines EXCEPT ![g] = Calling("Get", key, "lookup", EmptyUser)]
    /\ UNCHANGED << configuration, badWordsRegex, badDomainsRegex, badUsernamesRegex,
                    badDomainsList, cache, users, last, history, teamMembers, heap >>

\* go cache.Put(key, user)
GoPut(g, key, user) ==
    /\ goroutines[g].pc = "ready"
    /\ goroutines' = [goroutines EXCEPT ![g] = Calling("Put", key, "put", user)]
    /\ UNCHANGED << configuration, badWordsRegex, badDomainsRegex, badUsernamesRegex,
                    badDomainsList, cache, users, last, history, teamMembers, heap >>

ConcurrentKeys == {"bob", "ann"}

\* an empty cache, and goroutines that each make one call, as in
\* TestLRUCacheConcurrency
InitConcurrent ==
    /\ configuration = Nil
    /\ badWordsRegex = Nil
    /\ badDomainsRegex = Nil
    /\ badUsernamesRegex = Nil
    /\ badDomainsList = Nil
    /\ cache \in { NewLRUCache(capacity) : capacity \in 1..MaxCapacity }
    /\ users = InitialUsers
    /\ last = Idle
    /\ goroutines = [g \in Goroutines |-> Ready]
    /\ history = NoHistory
    /\ teamMembers = {}
    /\ heap = NoObjects

NextConcurrent ==
    \E g \in Goroutines :
        \/ \E key \in ConcurrentKeys : GoGet(g, key)
        \/ \E key \in ConcurrentKeys : \E user \in Snapshots(key) : GoPut(g, key, user)
        \/ GetLookup(g)
        \/ GetStamp(g)
        \/ \E order \in IterationOrders(cache.cache) : PutStep(g, order)

SpecConcurrent == InitConcurrent /\ [][NextConcurrent]_vars

\* every call has completed
AllDone == \A g \in Goroutines : goroutines[g].pc = "done"

\* the Puts that have completed
PutsDone == { g \in Goroutines : goroutines[g].op = "Put" /\ goroutines[g].pc = "done" }

KeysPut == { goroutines[g].key : g \in PutsDone }

\* C19: under every interleaving of concurrent Gets and Puts the cache stays
\* consistent: it never holds more entries than its capacity, its stamps
\* stay distinct, and every entry holds a value that a Put stored for its
\* key; and no eviction is lost: when all calls have completed the number of
\* entries is the smaller of the capacity and the number of distinct keys
\* put.
C19_ConsistentUnderConcurrency ==
    /\ Cardinality(Keys) <= cache.capacity
    /\ \A k, j \in Keys : k # j => cache.cache[k].lastAccess # cache.cache[j].lastAccess
    /\ \A k \in Keys : \E g \in PutsDone :
          /\ goroutines[g].key = k
          /\ goroutines[g].user = cache.cache[k].user
    /\ AllDone => Cardinality(Keys) = Min(cache.capacity, Cardinality(KeysPut))

\* C19 witness: all calls have completed, more keys were put than the cache
\* holds, and a Get returned the entry it had found although a Put had
\* evicted it in between
C19_Witness ==
    /\ AllDone
    /\ Cardinality(KeysPut) > cache.capacity
    /\ \E g \in Goroutines :
          /\ goroutines[g].op = "Get"
          /\ goroutines[g].found
          /\ goroutines[g].detached
          /\ goroutines[g].key \notin Keys

\* ------------------------------------------------------------------------
\* GetUserByID and cleanupUser on concurrent goroutines
\* ------------------------------------------------------------------------

\* the time of the soft delete
DeletedAt == 1

CleanupUserIds == {"hater", "bob"}

\* go p.GetUserByID(userID): the Get of the cache comes first
GoGetUserByID(g, userID) ==
    /\ goroutines[g].pc = "ready"
    /\ goroutines' = [goroutines EXCEPT
                         ![g] = Calling("GetUserByID", userID, "lookup", EmptyUser)]
    /\ UNCHANGED << configuration, badWordsRegex, badDomainsRegex, badUsernamesRegex,
                    badDomainsList, cache, users, last, history, teamMembers, heap >>

\* GetUserByID after a miss: p.API.GetUser; an error ends the call, a user
\* is copied for the Put
FetchUser(g, ok) ==
    /\ goroutines[g].pc = "fetch"
    /\ goroutines' = [goroutines EXCEPT ![g] =
          IF ok
          THEN [@ EXCEPT !.pc = "put", !.user = users[goroutines[g].key]]
          ELSE [@ EXCEPT !.pc = "done"]]
    /\ UNCHANGED << configuration, badWordsRegex, badDomainsRegex, badUsernamesRegex,
                    badDomainsList, cache, users, last, history, teamMembers, heap >>

\* go p.cleanupUser(user), up to p.API.DeleteUser
GoCleanupUser(g, userID) ==
    /\ goroutines[g].pc = "ready"
    /\ goroutines' = [goroutines EXCEPT
                         ![g] = Calling("cleanupUser", userID, "delete", EmptyUser)]
    /\ UNCHANGED << configuration, badWordsRegex, badDomainsRegex, badUsernamesRegex,
                    badDomainsList, cache, users, last, history, teamMembers, heap >>

\* cleanupUser: p.API.DeleteUser soft-deletes the user; on its error
\* cleanupUser returns
DeleteUser(g, ok) ==
    /\ goroutines[g].pc = "delete"
    /\ goroutines' = [goroutines EXCEPT ![g].pc = IF ok THEN "remove" ELSE "done"]
    /\ users' = IF ok /\ users[goroutines[g].key].DeleteAt = 0
                THEN [users EXCEPT ![goroutines[g].key].DeleteAt = DeletedAt]
                ELSE users
    /\ UNCHANGED << configuration, badWordsRegex, badDomainsRegex, badUsernamesRegex,
                    badDomainsList, cache, last, history, teamMembers, heap >>

\* cleanupUser: p.cache.Remove(user.Id), one section under the lock, and the
\* verification that follows, which reads the user and logs
RemoveStep(g) ==
    /\ goroutines[g].pc = "remove"
    /\ cache' = LRURemove(cache, goroutines[g].key)
    /\ goroutines' = [Detach({goroutines[g].key} \cap DOMAIN cache.cache)
                         EXCEPT ![g].pc = "done", ![g].found = TRUE]
    /\ history' = [history EXCEPT !.cleaned = @ \cup {goroutines[g].key}]
    /\ UNCHANGED << configuration, badWordsRegex, badDomainsRegex, badUsernamesRegex,
                    badDomainsList, users, last, teamMembers, heap >>

\* the plugin after OnConfigurationChange has made the cache
InitCleanup ==
    /\ configuration = Nil
    /\ badWordsRegex = Nil
    /\ badDomainsRegex = Nil
    /\ badUsernamesRegex = Nil
    /\ badDomainsList = Nil
    /\ cache = NewLRUCache(CacheCapacity)
    /\ users = InitialUsers
    /\ last = Idle
    /\ goroutines = [g \in Goroutines |-> Ready]
    /\ history = NoHistory
    /\ teamMembers = {}
    /\ heap = NoObjects

NextCleanup ==
    \E g \in Goroutines :
        \/ \E userID \in CleanupUserIds : GoGetUserByID(g, userID)
        \/ \E userID \in CleanupUserIds : GoCleanupUser(g, userID)
        \/ GetLookup(g)
        \/ GetStamp(g)
        \/ \E ok \in BOOLEAN : FetchUser(g, ok)
        \/ \E order \in IterationOrders(cache.cache) : PutStep(g, order)
        \/ \E ok \in BOOLEAN : DeleteUser(g, ok)
        \/ RemoveStep(g)

SpecCleanup == InitCleanup /\ [][NextCleanup]_vars

\* C20: once cleanupUser has soft-deleted a user and removed its cache
\* entry, no GetUserByID for that user that begins later returns a snapshot
\* with DeleteAt = 0, whatever GetUserByID calls were in progress during the
\* cleanup.  The code does not keep this: a GetUserByID that fetched the
\* user before the soft delete puts its snapshot into the cache after the
\* Remove.
C20_NoStaleSnapshotAfterCleanup ==
    \A g \in Goroutines :
        (/\ goroutines[g].op = "GetUserByID"
         /\ goroutines[g].pc = "done"
         /\ goroutines[g].late
         /\ goroutines[g].found) =>
            goroutines[g].user.DeleteAt # 0

\* C22: a reload that returns an error is rejected as a whole: the active
\* configuration and the three compiled regexes stay those in force before
\* the call.  The code does not keep this: it replaces the configuration
\* before it compiles the word lists, and returns at the first list that
\* does not compile.
C22_FailedReloadChangesNothing ==
    [][(last'.hook = "OnConfigurationChange" /\ last'.err) =>
          UNCHANGED << configuration, badWordsRegex, badDomainsRegex,
                       badUsernamesRegex >>]_vars

\* ------------------------------------------------------------------------
\* OnConfigurationChange on its goroutine while the post hooks are served
\* ------------------------------------------------------------------------

\* the goroutine of OnConfigurationChange between two calls
NotReloading == [op |-> "none", pc |-> "ready"]

Reloading(loaded, pc) == [op |-> "OnConfigurationChange", pc |-> pc, loaded |-> loaded]

\* OnConfigurationChange up to p.setConfiguration: the load, the validation
\* of the durations, which touch nothing of the plugin, and the replacement
\* of p.configuration under the configuration lock
ReloadBegin(loaded) ==
    /\ goroutines[1].pc = "ready"
    /\ validateDurationConfig(loaded.BlockNewUserPMTime)
    /\ validateDurationConfig(loaded.BlockNewUserLinksTime)
    /\ validateDurationConfig(loaded.BlockNewUserImagesTime)
    /\ configuration' = loaded
    /\ goroutines' = << Reloading(loaded, "cache") >>
    /\ UNCHANGED << badWordsRegex, badDomainsRegex, badUsernamesRegex, badDomainsList,
                    cache, users, last, history, teamMembers, heap >>

\* the assignment OnConfigurationChange has come to: p.cache, then the three
\* regexes, each compiled from the loaded configuration, then
\* p.badDomainsList; none of them is made under a lock.  A list that does
\* not compile ends the call.
ReloadStep ==
    LET call  == goroutines[1]
        words == splitWordListToRegex(call.loaded.BadWordsList, defaultRegexTemplate)
        domains == splitWordListToRegex(call.loaded.BadDomainsList, bareRegexTemplate)
        usernames == splitWordListToRegex(call.loaded.BadUsernamesList, bareRegexTemplate)
        to(pc, ok) == IF ok THEN << Reloading(call.loaded, pc) >> ELSE << NotReloading >>
    IN  /\ call.pc \notin {"ready"}
        /\ cache' = IF call.pc = "cache" /\ cache = Nil
                    THEN NewLRUCache(CacheCapacity) ELSE cache
        /\ badWordsRegex' = IF call.pc = "words" /\ ~words.err
                            THEN words.regex ELSE badWordsRegex
        /\ badDomainsRegex' = IF call.pc = "domains" /\ ~domains.err
                              THEN domains.regex ELSE badDomainsRegex
        /\ badUsernamesRegex' = IF call.pc = "usernames" /\ ~usernames.err
                                THEN usernames.regex ELSE badUsernamesRegex
        /\ badDomainsList' = IF call.pc = "builtin"
                             THEN [slice |-> builtinDomainList] ELSE badDomainsList
        /\ goroutines' = CASE call.pc = "cache" -> to("words", TRUE)
                           [] call.pc = "words" -> to("domains", ~words.err)
                           [] call.pc = "domains" -> to("usernames", ~domains.err)
                           [] call.pc = "usernames" -> to("builtin", ~usernames.err)
                           [] call.pc = "builtin" -> << NotReloading >>
        /\ UNCHANGED << configuration, users, last, history, teamMembers, heap >>

InitReload ==
    /\ configuration = Nil
    /\ badWordsRegex = Nil
    /\ badDomainsRegex = Nil
    /\ badUsernamesRegex = Nil
    /\ badDomainsList = Nil
    /\ cache = Nil
    /\ users = InitialUsers
    /\ last = Idle
    /\ goroutines = << NotReloading >>
    /\ history = NoHistory
    /\ teamMembers = {}
    /\ heap = NoObjects

\* the post hooks are served one at a time, on a goroutine of their own,
\* while OnConfigurationChange goes through its assignments
NextReload ==
    \/ /\ goroutines[1].pc = "ready"
       /\ \E loaded \in WordConfigurations : ReloadBegin(loaded)
    \/ ReloadStep
    \/ /\ last = Idle
       /\ \E post \in WordPosts : \E env \in EnvsOf(post) : MessageWillBePosted(post, env)
    \/ HookReturns

SpecReload == InitReload /\ [][NextReload]_vars

\* the regex splitWordListToRegex compiles from a list that compiles
CompiledFrom(wordList, regexTemplate) == splitWordListToRegex(wordList, regexTemplate).regex

\* C21: a hook acts on one configuration snapshot: the bad-words regex that
\* the profanity filter of a FilterPost uses is the one compiled from the
\* bad-words list of the configuration that FilterPost uses, and so are the
\* regexes of the blocked-author check.  The code does not keep this while
\* OnConfigurationChange is between p.setConfiguration and its assignments
\* of the regexes.
C21_HookUsesOneSnapshot ==
    /\ (Filtered /\ LastStage = "badwords") =>
          badWordsRegex = CompiledFrom(getConfiguration.BadWordsList, defaultRegexTemplate)
    /\ (Filtered /\ Entered("blocked")) =>
          /\ badUsernamesRegex =
                CompiledFrom(getConfiguration.BadUsernamesList, bareRegexTemplate)
          /\ badDomainsRegex =
                CompiledFrom(getConfiguration.BadDomainsList, bareRegexTemplate)

\* ------------------------------------------------------------------------
\* The account hooks (server/user.go): UserWillLogIn, UserHasBeenCreated,
\* UserHasJoinedTeam and the cleanup
\* ------------------------------------------------------------------------

TeamIds == {"t1", "t2"}

\* the order in which p.API.GetTeamsForUser lists teams
TeamListing == << "t1", "t2" >>

\* the order in which p.API.GetUsers lists users
UserListing ==
    << "ann", "bob", "gone", "hoo", "hater", "like", "mail", "nick", "noat", "sub", "yahoo" >>

TeamMember(userID, teamID) == [UserId |-> userID, TeamId |-> teamID]

\* env.fetchOK[i]: whether the i-th p.API.GetUser of the hook succeeds
\* env.teams:      what p.API.GetTeamsForUser does: "ok", "notfound" (an
\*                 error that says the user has no teams) or "error"
\* env.byName:     whether p.API.GetUserByUsername succeeds
\* env.byRole:     whether p.API.GetUsers succeeds
\* env.removable:  the teams for which p.API.DeleteTeamMember succeeds
\* env.deleteOK:   whether p.API.DeleteUser succeeds
AccountEnvs ==
    [fetchOK : [1..2 -> BOOLEAN], teams : {"ok", "notfound", "error"},
     byName : BOOLEAN, byRole : BOOLEAN, removable : SUBSET TeamIds,
     deleteOK : BOOLEAN]

\* the run of an account hook: the cache, the user store and the team
\* memberships as the hook leaves them, and its calls of the plugin API
\* other than logging and of the Remove of the cache, in order, each with
\* its outcome
NewAccountRun ==
    [cache |-> cache, fetched |-> 0, users |-> users, members |-> teamMembers,
     calls |-> << >>]

APICall(run, api, userID, teamID, adminID, ok) ==
    [run EXCEPT !.calls = Append(@, [api |-> api, user |-> userID, team |-> teamID,
                                     admin |-> adminID, ok |-> ok])]

\* the users p.API.GetUsers lists for the role system_admin
RoleSearch(store) ==
    SelectSeq(UserListing,
              LAMBDA id : id \in DOMAIN store /\ Contains(store[id].Roles, Text_system_admin))

\* the first user of the listing that is not deleted, "" when there is none
RECURSIVE FirstActive(_, _)
FirstActive(store, listing) ==
    IF listing = << >>
    THEN ""
    ELSE IF store[Head(listing)].DeleteAt = 0
    THEN Head(listing)
    ELSE FirstActive(store, Tail(listing))

\* a getSystemAdminUser that searches by role when the configured account
\* is not an administrator
getSystemAdminUserFallingBack(run, env) ==
    LET config  == getConfiguration
        named   == { id \in DOMAIN run.users : run.users[id].Username = config.AdminUsername }
        byName  == env.byName /\ named # {}
        user    == run.users[CHOOSE id \in named : TRUE]
        nameRun == IF config.AdminUsername # << >>
                   THEN APICall(run, "GetUserByUsername", "", "", "", byName)
                   ELSE run
        roleRun == APICall(nameRun, "GetUsers", "", "", "", env.byRole)
        first   == FirstActive(run.users, RoleSearch(run.users))
    IN  IF /\ config.AdminUsername # << >> /\ byName /\ user.DeleteAt = 0
           /\ Contains(user.Roles, Text_system_admin)
        THEN [id |-> user.Id, err |-> FALSE, run |-> nameRun]
        ELSE IF ~env.byRole
        THEN [id |-> "", err |-> TRUE, run |-> roleRun]
        ELSE IF first # ""
        THEN [id |-> first, err |-> FALSE, run |-> roleRun]
        ELSE [id |-> "", err |-> TRUE, run |-> roleRun]

\* getSystemAdminUser: the id of the administrator, or an error
getSystemAdminUser(run, env) ==
    LET config  == getConfiguration
        named   == { id \in DOMAIN run.users : run.users[id].Username = config.AdminUsername }
        byName  == env.byName /\ named # {}
        user    == run.users[CHOOSE id \in named : TRUE]
        nameRun == IF config.AdminUsername # << >>
                   THEN APICall(run, "GetUserByUsername", "", "", "", byName)
                   ELSE run
        roleRun == APICall(nameRun, "GetUsers", "", "", "", env.byRole)
        first   == FirstActive(run.users, RoleSearch(run.users))
    IN  IF config.AdminUsername # << >> /\ byName /\ user.DeleteAt = 0
        THEN IF user.Roles = Text_system_admin \/ Contains(user.Roles, Text_system_admin)
             THEN [id |-> user.Id, err |-> FALSE, run |-> nameRun]
             ELSE [id |-> "", err |-> TRUE, run |-> nameRun]
        ELSE IF ~env.byRole
        THEN [id |-> "", err |-> TRUE, run |-> roleRun]
        ELSE IF first # ""
        THEN [id |-> first, err |-> FALSE, run |-> roleRun]
        ELSE [id |-> "", err |-> TRUE, run |-> roleRun]

\* p.API.DeleteTeamMember
DeleteTeamMember(run, env, teamID, userID, adminID) ==
    LET ok == teamID \in env.removable
    IN  [APICall(run, "DeleteTeamMember", userID, teamID, adminID, ok) EXCEPT
            !.members = IF ok THEN @ \ {TeamMember(userID, teamID)} ELSE @]

\* the loop of RemoveUserFromTeams over the teams
RECURSIVE RemoveFromEach(_, _, _, _, _)
RemoveFromEach(run, env, teams, userID, adminID) ==
    IF teams = << >>
    THEN run
    ELSE RemoveFromEach(DeleteTeamMember(run, env, Head(teams), userID, adminID),
                        env, Tail(teams), userID, adminID)

\* RemoveUserFromTeams: the run and whether it returns an error
RemoveUserFromTeams(run, env, user) ==
    LET teamsRun == APICall(run, "GetTeamsForUser", user.Id, "", "", env.teams = "ok")
        teams    == SelectSeq(TeamListing,
                              LAMBDA t : TeamMember(user.Id, t) \in run.members)
        admin    == getSystemAdminUser(teamsRun, env)
    IN  IF env.teams = "notfound"
        THEN [err |-> FALSE, run |-> teamsRun]
        ELSE IF env.teams = "error"
        THEN [err |-> TRUE, run |-> teamsRun]
        ELSE IF Len(teams) = 0
        THEN [err |-> FALSE, run |-> teamsRun]
        ELSE IF admin.err
        THEN [err |-> TRUE, run |-> admin.run]
        ELSE [err |-> \E i \in 1..Len(teams) : teams[i] \notin env.removable,
              run |-> RemoveFromEach(admin.run, env, teams, user.Id, admin.id)]

\* fmt.Sprintf("sanitized-%s", id), the id standing for its characters
Sanitized(id) == << "s", "a", "n", "i", "t", "i", "z", "e", "d", "-" >> \o << id >>

IsSanitized(name) == Len(name) > 0 /\ name = Sanitized(name[Len(name)])

\* a cleanupUser that, after DeleteUser, renames the account with
\* p.API.UpdateUser as cleanupUser once did
AfterDeleteUserSanitizing(run, env, user) ==
    LET renamed == APICall(run, "UpdateUser", user.Id, "", "", TRUE)
    IN  [renamed EXCEPT
            !.users = [@ EXCEPT ![user.Id].DeleteAt = DeletedAt,
                                ![user.Id].Username = Sanitized(user.Id),
                                ![user.Id].Nickname = Sanitized(user.Id)],
            !.cache = IF @ = Nil THEN @ ELSE LRURemove(@, user.Id)]

\* the part of cleanupUser after a DeleteUser that succeeded: the store has
\* the account deleted, the cache entry is removed, the account is fetched
\* again for the log
AfterDeleteUser(run, env, user) ==
    LET deletedRun == [run EXCEPT
                          !.users = IF user.Id \in DOMAIN @ /\ @[user.Id].DeleteAt = 0
                                    THEN [@ EXCEPT ![user.Id].DeleteAt = DeletedAt]
                                    ELSE @]
        removedRun == IF run.cache = Nil
                      THEN deletedRun
                      ELSE [APICall(deletedRun, "Remove", user.Id, "", "", TRUE) EXCEPT
                               !.cache = LRURemove(@, user.Id)]
        verified   == APIGetUser(removedRun, env, user.Id)
    IN  APICall(verified.run, "GetUser", user.Id, "", "", verified.ok)

\* a cleanupUser that goes on after a DeleteUser that failed
cleanupUserIgnoringFailure(run, env, user) ==
    LET removed   == RemoveUserFromTeams(run, env, user)
        deleteRun == APICall(removed.run, "DeleteUser", user.Id, "", "", env.deleteOK)
    IN  [err |-> ~env.deleteOK, run |-> AfterDeleteUser(deleteRun, env, user)]

\* a cleanupUser that invalidates the cache before it removes the user
\* from the teams
cleanupUserInvalidatingFirst(run, env, user) ==
    LET first     == IF run.cache = Nil
                     THEN run
                     ELSE [APICall(run, "Remove", user.Id, "", "", TRUE) EXCEPT
                              !.cache = LRURemove(@, user.Id)]
        removed   == RemoveUserFromTeams(first, env, user)
        deleteRun == APICall(removed.run, "DeleteUser", user.Id, "", "", env.deleteOK)
    IN  [err |-> ~env.deleteOK, run |-> deleteRun]

\* cleanupUser: the run and whether it returns an error
cleanupUser(run, env, user) ==
    LET removed   == RemoveUserFromTeams(run, env, user)
        deleteRun == APICall(removed.run, "DeleteUser", user.Id, "", "", env.deleteOK)
    IN  IF ~env.deleteOK
        THEN [err |-> TRUE, run |-> deleteRun]
        ELSE [err |-> FALSE, run |-> AfterDeleteUser(deleteRun, env, user)]

\* RequiresModeration with the two validators of UserHasBeenCreated:
\* "panic", or whether an error came back
RequiresModeration(user) ==
    LET badUsername == checkBadUsername(user)
        badEmail    == checkBadEmail(user)
    IN  IF badEmail = "panic"
        THEN "panic"
        ELSE IF badUsername \/ badEmail = "bad" THEN "yes" ELSE "no"

\* UserHasBeenCreated
UserHasBeenCreated(run, env, user) ==
    LET moderation == RequiresModeration(user)
    IN  IF moderation = "panic"
        THEN [kind |-> "panic", err |-> FALSE, run |-> run]
        ELSE IF moderation = "no"
        THEN [kind |-> "ok", err |-> FALSE, run |-> run]
        ELSE LET cleaned == cleanupUser(run, env, user)
             IN  [kind |-> "cleanup", err |-> cleaned.err, run |-> cleaned.run]

\* shouldBlock of UserHasJoinedTeam: "yes", "no", or "panic" when
\* checkBadEmail panics
shouldBlock(user) ==
    IF user.DeleteAt > 0 \/ checkBadUsername(user)
    THEN "yes"
    ELSE IF checkBadEmail(user) = "panic"
    THEN "panic"
    ELSE IF checkBadEmail(user) = "bad" THEN "yes" ELSE "no"

\* a removeUserFromTeam that gives up when the administrator lookup failed
JoinerRemovalGivingUp(admin) == [call |-> ~admin.err, admin |-> admin.id]

\* the removal removeUserFromTeam makes after its administrator lookup:
\* with the administrator's id, or with no id when the lookup failed
JoinerRemoval(admin) == [call |-> TRUE, admin |-> IF admin.err THEN "" ELSE admin.id]

\* a removeUserFromTeam that repeats a removal without administrator that
\* has failed
removeUserFromTeamRetrying(run, env, userID, teamID) ==
    LET admin == getSystemAdminUser(run, env)
        first == DeleteTeamMember(admin.run, env, teamID, userID,
                                  IF admin.err THEN "" ELSE admin.id)
    IN  IF admin.err /\ teamID \notin env.removable
        THEN DeleteTeamMember(first, env, teamID, userID, "")
        ELSE first

\* removeUserFromTeam
removeUserFromTeam(run, env, userID, teamID) ==
    LET admin   == getSystemAdminUser(run, env)
        removal == JoinerRemoval(admin)
    IN  IF removal.call
        THEN DeleteTeamMember(admin.run, env, teamID, userID, removal.admin)
        ELSE admin.run

\* UserHasJoinedTeam; user is the one GetUserByID has resolved
UserHasJoinedTeam(run, env, teamMember) ==
    LET got == GetUserByID(run, env, teamMember.UserId)
    IN  IF got.err
        THEN [kind |-> "unresolved", err |-> TRUE, user |-> got.user, run |-> got.run]
        ELSE IF shouldBlock(got.user) = "panic"
        THEN [kind |-> "panic", err |-> FALSE, user |-> got.user, run |-> got.run]
        ELSE IF shouldBlock(got.user) = "yes"
        THEN [kind |-> "blocked", err |-> FALSE, user |-> got.user,
              run  |-> removeUserFromTeam(got.run, env, teamMember.UserId,
                                          teamMember.TeamId)]
        ELSE [kind |-> "ok", err |-> FALSE, user |-> got.user, run |-> got.run]

DeactivatedMessage ==
    "Your account has been deactivated due to policy violations. Please contact an administrator."

GuidelinesMessage ==
    "Your account violates community guidelines. Please contact an administrator."

\* UserWillLogIn: the message it returns, "" to allow the login
UserWillLogIn(user) ==
    IF user.DeleteAt > 0
    THEN [kind |-> "ok", message |-> DeactivatedMessage]
    ELSE IF checkBadUsername(user)
    THEN [kind |-> "ok", message |-> GuidelinesMessage]
    ELSE IF checkBadEmail(user) = "panic"
    THEN [kind |-> "panic", message |-> ""]
    ELSE IF checkBadEmail(user) = "bad"
    THEN [kind |-> "ok", message |-> GuidelinesMessage]
    ELSE [kind |-> "ok", message |-> ""]

\* ------------------------------------------------------------------------
\* The account hooks served one at a time
\* ------------------------------------------------------------------------

Text_baddomaincom == << "b", "a", "d", "d", "o", "m", "a", "i", "n", ".", "c", "o", "m" >>

Text_ann == << "a", "n", "n" >>

Text_bob == << "b", "o", "b" >>

Text_gus == << "g", "u", "s" >>

\* the accounts of the user store: those of InitialUsers and accounts whose
\* email has a domain that ends with hoo.com (yahoo, sub), a domain that
\* contains baddomain.com (like), or no "@" (noat)
AccountUserIds == UserIds \cup {"yahoo", "like", "noat", "sub"}

AccountUsers ==
    [id \in AccountUserIds |->
        CASE id = "yahoo" ->
               NewUser(id, << "y", "a", "n" >>, << >>, << "y", "@", "y", "a", "h", "o", "o", ".", "c", "o", "m" >>, Text_system_user, 0)
          [] id = "like" ->
               NewUser(id, << "l", "e", "e" >>, << >>, << "u", "@", "l", "o", "o", "k", "s", "l", "i", "k", "e", "a", "b", "a", "d", "d", "o", "m", "a", "i", "n", ".", "c", "o", "m" >>, Text_system_user, 0)
          [] id = "noat" ->
               NewUser(id, << "n", "o", "a" >>, << >>, Text_hoocom, Text_system_user, 0)
          [] id = "sub" ->
               NewUser(id, << "s", "u", "e" >>, << >>, << "s", "@", "s", "u", "b", ".", "h", "o", "o", ".", "c", "o", "m" >>, Text_system_user, 0)
          [] OTHER -> InitialUsers[id]]

AccountConfiguration ==
    [EmptyConfiguration EXCEPT
        !.BadDomainsList    = Text_baddomaincom,
        !.BadUsernamesList  = Text_hate,
        !.BuiltinBadDomains = TRUE]

\* the configurations LoadPluginConfiguration may deliver: all the account
\* rules, without a named administrator and with one (an administrator, a
\* plain user, a deactivated account), the builtin list alone, the lists
\* alone, no rule at all, and a word list that does not compile
AccountConfigurations ==
    { AccountConfiguration,
      [AccountConfiguration EXCEPT !.AdminUsername = Text_ann],
      [AccountConfiguration EXCEPT !.AdminUsername = Text_bob],
      [AccountConfiguration EXCEPT !.AdminUsername = Text_gus],
      [AccountConfiguration EXCEPT !.BadDomainsList = << >>, !.BadUsernamesList = << >>],
      [AccountConfiguration EXCEPT !.BuiltinBadDomains = FALSE],
      EmptyConfiguration,
      [AccountConfiguration EXCEPT !.BadWordsList = << "(" >>] }

\* the accounts the server reports as created, and the memberships it adds
CreatedIds == {"hater", "bob", "like", "yahoo"}

Joins ==
    { TeamMember("hater", "t1"), TeamMember("hater", "t2"),
      TeamMember("bob", "t1"), TeamMember("yahoo", "t1") }

DefaultAccountEnv ==
    [fetchOK |-> [i \in 1..2 |-> TRUE], teams |-> "ok", byName |-> TRUE,
     byRole |-> TRUE, removable |-> TeamIds, deleteOK |-> TRUE]

\* the environments that differ in what the hooks read: a hook makes one
\* p.API.GetUser at most, a hook that returns before its first external
\* call reads nothing, the administrator is looked up by name only when a
\* name is configured, and by role and for the removals only once the teams
\* are listed
CreatedEnvs(user) ==
    IF RequiresModeration(user) # "yes"
    THEN {DefaultAccountEnv}
    ELSE { env \in AccountEnvs :
              /\ env.fetchOK[2]
              /\ ~env.deleteOK => env.fetchOK[1]
              /\ getConfiguration.AdminUsername = << >> => env.byName
              /\ env.teams # "ok" =>
                    env.byName /\ env.byRole /\ env.removable = TeamIds }

JoinedEnvs ==
    { env \in AccountEnvs :
          /\ env.fetchOK[2] /\ env.teams = "ok" /\ env.deleteOK /\ "t2" \in env.removable
          /\ getConfiguration.AdminUsername = << >> => env.byName }

\* what a state keeps of an account hook: what came back, the calls made and
\* the number of p.API.GetUser among them
Returned(ret) ==
    [kind |-> ret.kind, err |-> ret.err, calls |-> ret.run.calls,
     fetched |-> ret.run.fetched]

\* the server calls UserWillLogIn with an account of the store
LoginAttempted(id) ==
    /\ last = Idle
    /\ last' = [hook |-> "UserWillLogIn", user |-> users[id],
                ret  |-> UserWillLogIn(users[id])]
    /\ UNCHANGED << configuration, badWordsRegex, badDomainsRegex, badUsernamesRegex,
                    badDomainsList, cache, users, goroutines, history, teamMembers, heap >>

\* the server calls UserHasBeenCreated with an account of the store;
\* last.before is what the hook found
AccountCreated(id, env) ==
    /\ last = Idle
    /\ \E ret \in {UserHasBeenCreated(NewAccountRun, env, users[id])} :
          /\ last' = [hook |-> "UserHasBeenCreated", user |-> users[id],
                      before |-> [cache |-> cache, members |-> teamMembers],
                      ret |-> Returned(ret)]
          /\ cache' = ret.run.cache
          /\ users' = ret.run.users
          /\ teamMembers' = ret.run.members
    /\ UNCHANGED << configuration, badWordsRegex, badDomainsRegex, badUsernamesRegex,
                    badDomainsList, goroutines, history, heap >>

\* the server adds a team member and calls UserHasJoinedTeam with it;
\* last.resolved is the user GetUserByID handed to the hook
TeamJoined(teamMember, env) ==
    /\ last = Idle
    /\ teamMember \notin teamMembers
    /\ \E ret \in {UserHasJoinedTeam([NewAccountRun EXCEPT !.members = @ \cup {teamMember}],
                                     env, teamMember)} :
          /\ last' = [hook |-> "UserHasJoinedTeam", teamMember |-> teamMember,
                      resolved |-> ret.user,
                      before |-> [cache |-> cache, members |-> teamMembers \cup {teamMember}],
                      ret |-> Returned(ret)]
          /\ cache' = ret.run.cache
          /\ teamMembers' = ret.run.members
    /\ UNCHANGED << configuration, badWordsRegex, badDomainsRegex, badUsernamesRegex,
                    badDomainsList, users, goroutines, history, heap >>

InitAccounts ==
    /\ configuration = Nil
    /\ badWordsRegex = Nil
    /\ badDomainsRegex = Nil
    /\ badUsernamesRegex = Nil
    /\ badDomainsList = Nil
    /\ cache = Nil
    /\ users = AccountUsers
    /\ last = Idle
    /\ goroutines = NoGoroutines
    /\ history = NoHistory
    /\ teamMembers = {}
    /\ heap = NoObjects

NextAccounts ==
    \/ /\ last = Idle
       /\ \E loaded \in AccountConfigurations : OnConfigurationChange(loaded, TRUE)
    \/ /\ last = Idle
       /\ \E id \in AccountUserIds : LoginAttempted(id)
    \/ /\ last = Idle
       /\ \E id \in CreatedIds : \E env \in CreatedEnvs(users[id]) : AccountCreated(id, env)
    \/ /\ last = Idle
       /\ \E teamMember \in Joins : \E env \in JoinedEnvs : TeamJoined(teamMember, env)
    \/ HookReturns

SpecAccounts == InitAccounts /\ [][NextAccounts]_vars

\* ------------------------------------------------------------------------
\* Vocabulary of the properties of the account hooks
\* ------------------------------------------------------------------------

LoginServed == last.hook = "UserWillLogIn"

CreationServed == last.hook = "UserHasBeenCreated"

JoinServed == last.hook = "UserHasJoinedTeam"

\* the login was refused with a message
LoginRefused == last.ret.kind = "ok" /\ last.ret.message # ""

LoginAllowed == last.ret.kind = "ok" /\ last.ret.message = ""

\* the domain of the email is a member of the builtin list
BuiltinListed(user) ==
    /\ HasDomain(user.Email)
    /\ \E i \in 1..Len(builtinDomainList) : builtinDomainList[i] = DomainOf(user.Email)

\* the domain of the email matches the compiled bad-domains list
RegexListed(user) ==
    /\ badDomainsRegex # Nil
    /\ HasDomain(user.Email)
    /\ MatchString(badDomainsRegex, DomainOf(user.Email))

\* the positions in the call log of the hook of the calls of api
CallsOf(api) == { i \in 1..Len(last.ret.calls) : last.ret.calls[i].api = api }

Text_lookslike == << "u", "@", "l", "o", "o", "k", "s", "l", "i", "k", "e", "a", "b", "a", "d", "d", "o", "m", "a", "i", "n", ".", "c", "o", "m" >>

\* C23: with the builtin list enabled (and set up), a login of an active
\* user whom neither the username rule nor the bad-domains list flags is
\* refused if and only if the part of the email after the first "@" is a
\* member of the builtin list; a domain that only ends with a member is let in
C23_BuiltinMatchesExactDomain ==
    (/\ LoginServed
     /\ getConfiguration.BuiltinBadDomains
     /\ badDomainsList # Nil
     /\ last.user.DeleteAt = 0
     /\ ~BadName(last.user)
     /\ ~RegexListed(last.user))
        => (LoginRefused <=> BuiltinListed(last.user))

\* C24: an account created with the email user@lookslikeabaddomain.com
\* while the bad-domains list is baddomain.com, and which no other rule
\* matches, is not flagged: UserHasBeenCreated makes no DeleteTeamMember and
\* no DeleteUser call for it
C24_PartialDomainNotFlagged ==
    (/\ CreationServed
     /\ last.user.Email = Text_lookslike
     /\ getConfiguration.BadDomainsList = Text_baddomaincom
     /\ ~BadName(last.user)
     /\ ~BuiltinListed(last.user))
        => /\ last.ret.kind = "ok"
           /\ CallsOf("DeleteTeamMember") = {}
           /\ CallsOf("DeleteUser") = {}

\* C25: for an email without "@" the bad-email rule returns no error and
\* does not panic, whatever the builtin list and the bad-domains regex: once
\* a configuration is active and the builtin list is set up, a login of an
\* active user with such an email and a clean name is allowed
C25_NoAtNeverMatches ==
    (/\ LoginServed
     /\ configuration # Nil
     /\ badDomainsList # Nil
     /\ ~HasDomain(last.user.Email)
     /\ last.user.DeleteAt = 0
     /\ ~BadName(last.user))
        => LoginAllowed

\* a rule flags the account: the username or nickname matches the
\* bad-usernames list, or the domain of the email is in the builtin list
\* or matches the bad-domains list
RuleFlagged(user) == BadName(user) \/ BadDomain(user)

\* a configuration is active and the builtin list is set up
RulesSetUp == configuration # Nil /\ badDomainsList # Nil

\* C26: once the rules are set up, UserHasBeenCreated calls DeleteUser
\* exactly once for a new account that a rule flags, whatever fails before,
\* and makes no DeleteUser and no DeleteTeamMember call for an account that
\* no rule flags
C26_FlaggedAccountDeactivatedOnce ==
    (CreationServed /\ RulesSetUp) =>
        IF RuleFlagged(last.user)
        THEN Cardinality(CallsOf("DeleteUser")) = 1
        ELSE CallsOf("DeleteUser") = {} /\ CallsOf("DeleteTeamMember") = {}

\* C26, as far as the code goes: an account that checkBadUsername or
\* checkBadEmail reports gets exactly one DeleteUser, whatever fails before,
\* and an account that neither reports gets no call at all
C26_ReportedAccountDeactivatedOnce ==
    (CreationServed /\ RulesSetUp) =>
        IF checkBadUsername(last.user) \/ checkBadEmail(last.user) = "bad"
        THEN Cardinality(CallsOf("DeleteUser")) = 1
        ELSE last.ret.calls = << >>

\* a cleanup that made its DeleteUser although the team enumeration, the
\* administrator lookup or a team removal had failed
C26_DeactivatedAfterFailures ==
    /\ CreationServed /\ RulesSetUp
    /\ Cardinality(CallsOf("DeleteUser")) = 1
    /\ \E i \in 1..Len(last.ret.calls) :
          /\ last.ret.calls[i].api \in {"GetTeamsForUser", "GetUsers", "DeleteTeamMember"}
          /\ ~last.ret.calls[i].ok

\* the position of the first call of api in the call log, 0 when there is none
FirstCallOf(api) ==
    IF CallsOf(api) = {} THEN 0 ELSE CHOOSE i \in CallsOf(api) : \A j \in CallsOf(api) : i <= j

\* the cleanup made its DeleteUser and it failed
DeleteUserFailed ==
    \E i \in CallsOf("DeleteUser") : ~last.ret.calls[i].ok

\* the cache held an entry for the account when the hook began
WasCached == last.before.cache # Nil /\ last.user.Id \in DOMAIN last.before.cache.cache

\* C27: when DeleteUser fails cleanupUser returns an error and stops: the
\* cache is left as it was, the account is not deleted in the store, and
\* the failed DeleteUser is the last call of the cleanup
C27_FailedDeleteUserAborts ==
    (CreationServed /\ DeleteUserFailed) =>
        /\ last.ret.err
        /\ cache = last.before.cache
        /\ users[last.user.Id] = last.user
        /\ last.ret.calls[Len(last.ret.calls)].api = "DeleteUser"

C27_Witness ==
    /\ CreationServed /\ DeleteUserFailed
    /\ WasCached
    /\ CallsOf("DeleteTeamMember") # {}

\* C28: a cleanup first makes its team removals, then DeleteUser, then
\* removes the cache entry; when cleanupUser has returned without an error
\* the cache holds no entry for the account
C28_CleanupOrder ==
    (CreationServed /\ last.ret.kind = "cleanup") =>
        /\ \A i \in CallsOf("GetTeamsForUser") \cup CallsOf("DeleteTeamMember") :
              i < FirstCallOf("DeleteUser")
        /\ Cardinality(CallsOf("DeleteUser")) = 1
        /\ \A i \in CallsOf("Remove") : FirstCallOf("DeleteUser") < i
        /\ ~last.ret.err =>
              /\ cache # Nil
              /\ CallsOf("Remove") # {}
              /\ last.user.Id \notin DOMAIN cache.cache

C28_Witness ==
    /\ CreationServed /\ last.ret.kind = "cleanup" /\ ~last.ret.err
    /\ WasCached
    /\ Cardinality(CallsOf("DeleteTeamMember")) = 2

\* the hook made exactly one DeleteTeamMember call, for the joining user
\* and the joined team
RemovedFromJoinedTeam ==
    /\ Cardinality(CallsOf("DeleteTeamMember")) = 1
    /\ \A i \in CallsOf("DeleteTeamMember") :
          /\ last.ret.calls[i].user = last.teamMember.UserId
          /\ last.ret.calls[i].team = last.teamMember.TeamId

\* GetUserByID handed a user to UserHasJoinedTeam
JoinerResolved == JoinServed /\ last.ret.kind # "unresolved"

\* C29: once the rules are set up, UserHasJoinedTeam calls DeleteTeamMember,
\* once and for the joining user and the joined team, if and only if the
\* resolved user is soft-deleted or a rule flags the username, the nickname
\* or the email; for an active user that no rule flags it makes no such call
C29_JoinerRemovedIffFlagged ==
    (JoinerResolved /\ RulesSetUp) =>
        IF Flagged(last.resolved)
        THEN RemovedFromJoinedTeam
        ELSE CallsOf("DeleteTeamMember") = {}

\* C29, as far as the code goes: the removal is made if and only if the
\* resolved user is soft-deleted or checkBadUsername or checkBadEmail
\* reports it
C29_ReportedJoinerRemoved ==
    (JoinerResolved /\ RulesSetUp) =>
        IF \/ last.resolved.DeleteAt > 0
           \/ checkBadUsername(last.resolved)
           \/ checkBadEmail(last.resolved) = "bad"
        THEN RemovedFromJoinedTeam
        ELSE CallsOf("DeleteTeamMember") = {}

\* a soft-deleted joiner with a clean name and email was removed
C29_DeletedJoinerRemoved ==
    /\ JoinerResolved /\ RulesSetUp
    /\ last.resolved.DeleteAt > 0
    /\ ~checkBadUsername(last.resolved)
    /\ RemovedFromJoinedTeam

\* ------------------------------------------------------------------------
\* The cleanup of a new account and the hooks of its team joins, running on
\* concurrent goroutines.  A step is the code up to and including one call
\* of the plugin API; the goroutines interleave between the steps.
\* ------------------------------------------------------------------------

\* a goroutine serving op for the account key: its position, the team of a
\* join, the teams RemoveUserFromTeams has still to go through and the
\* administrator id it removes with
Serving(op, key, pc, team) ==
    [op |-> op, key |-> key, pc |-> pc, team |-> team, teams |-> << >>, admin |-> ""]

\* a goroutine whose hook has returned
Returns(g) ==
    Serving(IF goroutines[g].op = "UserHasBeenCreated" THEN goroutines[g].op ELSE "none",
            goroutines[g].key, "done", "")

\* the accounts the rules flag: by the username, by the builtin list
FlaggedIds == {"hater", "hoo"}

\* the outcomes of the administrator lookup
AdminEnvs ==
    { [DefaultAccountEnv EXCEPT !.byName = byName, !.byRole = byRole] :
          byName \in IF getConfiguration.AdminUsername = << >> THEN {TRUE} ELSE BOOLEAN,
          byRole \in BOOLEAN }

\* goroutine g can take the next hook call of the account: the goroutines
\* are taken in their order, which of them serves a call making no
\* difference, and the hooks are those of one account, the hooks of another
\* account touching neither its memberships nor its record
Free(g, userID) ==
    /\ goroutines[g].pc = "ready"
    /\ \A h \in Goroutines : h < g => goroutines[h].pc # "ready"
    /\ \A h \in Goroutines : goroutines[h].key \in {"", userID}

\* the server calls UserHasBeenCreated, once for an account:
\* RequiresModeration, then cleanupUser
GoUserHasBeenCreated(g, userID) ==
    /\ Free(g, userID)
    /\ \A h \in Goroutines : goroutines[h].op # "UserHasBeenCreated"
    /\ goroutines' = [goroutines EXCEPT ![g] =
          Serving("UserHasBeenCreated", userID,
                  IF RequiresModeration(users[userID]) = "yes" THEN "teams" ELSE "done", "")]
    /\ UNCHANGED << configuration, badWordsRegex, badDomainsRegex, badUsernamesRegex,
                    badDomainsList, cache, users, last, history, teamMembers, heap >>

\* RemoveUserFromTeams: p.API.GetTeamsForUser
GetTeamsForUser(g, outcome) ==
    /\ goroutines[g].pc = "teams"
    /\ \E teams \in { SelectSeq(TeamListing,
                                LAMBDA t : TeamMember(goroutines[g].key, t) \in teamMembers) } :
          goroutines' = [goroutines EXCEPT ![g] =
              IF outcome = "ok" /\ Len(teams) > 0
              THEN [@ EXCEPT !.pc = "admin", !.teams = teams]
              ELSE [@ EXCEPT !.pc = "delete"]]
    /\ UNCHANGED << configuration, badWordsRegex, badDomainsRegex, badUsernamesRegex,
                    badDomainsList, cache, users, last, history, teamMembers, heap >>

\* getSystemAdminUser, in RemoveUserFromTeams, which returns on its error,
\* and in removeUserFromTeam, which goes on without an administrator
LookupAdmin(g, env) ==
    /\ goroutines[g].pc = "admin"
    /\ \E admin \in { getSystemAdminUser([users |-> users, calls |-> << >>], env) } :
          goroutines' = [goroutines EXCEPT ![g] =
              IF goroutines[g].op = "UserHasBeenCreated"
              THEN IF admin.err
                   THEN [@ EXCEPT !.pc = "delete", !.teams = << >>]
                   ELSE [@ EXCEPT !.pc = "leave", !.admin = admin.id]
              ELSE IF JoinerRemoval(admin).call
                   THEN [@ EXCEPT !.pc = "leave", !.admin = JoinerRemoval(admin).admin]
                   ELSE Returns(g)]
    /\ UNCHANGED << configuration, badWordsRegex, badDomainsRegex, badUsernamesRegex,
                    badDomainsList, cache, users, last, history, teamMembers, heap >>

\* p.API.DeleteTeamMember, which succeeds: for the next team of the loop of
\* RemoveUserFromTeams, for the joined team in removeUserFromTeam
LeaveTeam(g) ==
    /\ goroutines[g].pc = "leave"
    /\ IF goroutines[g].op = "UserHasBeenCreated"
       THEN /\ teamMembers' = teamMembers
                                 \ {TeamMember(goroutines[g].key, Head(goroutines[g].teams))}
            /\ goroutines' = [goroutines EXCEPT ![g] =
                  IF Len(goroutines[g].teams) = 1
                  THEN Serving("UserHasBeenCreated", goroutines[g].key, "delete", "")
                  ELSE [@ EXCEPT !.teams = Tail(goroutines[g].teams)]]
       ELSE /\ teamMembers' = teamMembers
                                 \ {TeamMember(goroutines[g].key, goroutines[g].team)}
            /\ goroutines' = [goroutines EXCEPT ![g] = Returns(g)]
    /\ UNCHANGED << configuration, badWordsRegex, badDomainsRegex, badUsernamesRegex,
                    badDomainsList, cache, users, last, history, heap >>

\* cleanupUser: p.API.DeleteUser; on its error cleanupUser returns
DeactivateUser(g, ok) ==
    /\ goroutines[g].pc = "delete"
    /\ goroutines' = [goroutines EXCEPT ![g] =
          IF ok THEN Serving("UserHasBeenCreated", goroutines[g].key, "uncache", "")
          ELSE Returns(g)]
    /\ users' = IF ok /\ users[goroutines[g].key].DeleteAt = 0
                THEN [users EXCEPT ![goroutines[g].key].DeleteAt = DeletedAt]
                ELSE users
    /\ UNCHANGED << configuration, badWordsRegex, badDomainsRegex, badUsernamesRegex,
                    badDomainsList, cache, last, history, teamMembers, heap >>

\* cleanupUser: p.cache.Remove and the verification p.API.GetUser
UncacheUser(g) ==
    /\ goroutines[g].pc = "uncache"
    /\ cache' = LRURemove(cache, goroutines[g].key)
    /\ goroutines' = [goroutines EXCEPT ![g] = Returns(g)]
    /\ UNCHANGED << configuration, badWordsRegex, badDomainsRegex, badUsernamesRegex,
                    badDomainsList, users, last, history, teamMembers, heap >>

\* the user joins a team: the server adds the member and calls
\* UserHasJoinedTeam
GoUserHasJoinedTeam(g, teamMember) ==
    /\ Free(g, teamMember.UserId)
    /\ teamMember \notin teamMembers
    /\ teamMembers' = teamMembers \cup {teamMember}
    /\ goroutines' = [goroutines EXCEPT ![g] =
          Serving("UserHasJoinedTeam", teamMember.UserId, "resolve", teamMember.TeamId)]
    /\ UNCHANGED << configuration, badWordsRegex, badDomainsRegex, badUsernamesRegex,
                    badDomainsList, cache, users, last, history, heap >>

\* UserHasJoinedTeam: GetUserByID, whose lookup succeeds, and shouldBlock
ResolveJoiner(g) ==
    /\ goroutines[g].pc = "resolve"
    /\ \E got \in { GetUserByID([cache |-> cache, fetched |-> 0], DefaultAccountEnv,
                                goroutines[g].key) } :
          /\ cache' = got.run.cache
          /\ goroutines' = [goroutines EXCEPT ![g] =
                IF shouldBlock(got.user) = "yes" THEN [@ EXCEPT !.pc = "admin"] ELSE Returns(g)]
    /\ UNCHANGED << configuration, badWordsRegex, badDomainsRegex, badUsernamesRegex,
                    badDomainsList, users, last, history, teamMembers, heap >>

\* the plugin after an OnConfigurationChange that has run to its end
InitJoins ==
    /\ configuration = AccountConfiguration
    /\ badWordsRegex = splitWordListToRegex(configuration.BadWordsList, defaultRegexTemplate).regex
    /\ badDomainsRegex = splitWordListToRegex(configuration.BadDomainsList, bareRegexTemplate).regex
    /\ badUsernamesRegex =
          splitWordListToRegex(configuration.BadUsernamesList, bareRegexTemplate).regex
    /\ badDomainsList = [slice |-> builtinDomainList]
    /\ cache = NewLRUCache(CacheCapacity)
    /\ users = AccountUsers
    /\ last = Idle
    /\ goroutines = [g \in Goroutines |-> Serving("none", "", "ready", "")]
    /\ history = NoHistory
    /\ teamMembers = {}
    /\ heap = NoObjects

\* the steps of the hook that goroutine g is serving
Continue(g) ==
    \/ \E outcome \in {"ok", "notfound", "error"} : GetTeamsForUser(g, outcome)
    \/ \E env \in AdminEnvs : LookupAdmin(g, env)
    \/ LeaveTeam(g)
    \/ \E ok \in BOOLEAN : DeactivateUser(g, ok)
    \/ UncacheUser(g)
    \/ ResolveJoiner(g)

NextJoins ==
    \E g \in Goroutines :
        \/ \E userID \in FlaggedIds : GoUserHasBeenCreated(g, userID)
        \/ \E userID \in FlaggedIds : \E teamID \in TeamIds :
              GoUserHasJoinedTeam(g, TeamMember(userID, teamID))
        \/ Continue(g)

\* a hook that the server has called runs to its end: its goroutine is
\* scheduled again and again and the calls of the plugin API return
SpecJoins ==
    InitJoins /\ [][NextJoins]_vars /\ \A g \in Goroutines : WF_vars(Continue(g))

\* the teams the account is a member of
TeamsOf(userID) == { t \in TeamIds : TeamMember(userID, t) \in teamMembers }

\* C30: for a flagged account, however its cleanup and the hooks of its team
\* joins interleave, the account is in the end a member of no team, when
\* every join calls UserHasJoinedTeam, the user lookups succeed and the
\* removals succeed
C30_EventuallyInNoTeam == <>[](\A userID \in FlaggedIds : TeamsOf(userID) = {})

\* the account joins a team while its cleanup is past its team removals,
\* and the hook of the join is about to remove it
C30_Witness ==
    \E g \in Goroutines : \E h \in Goroutines :
        /\ goroutines[g].op = "UserHasBeenCreated"
        /\ goroutines[g].pc \in {"delete", "uncache"}
        /\ goroutines[h].op = "UserHasJoinedTeam"
        /\ goroutines[h].key = goroutines[g].key
        /\ goroutines[h].pc = "leave"
        /\ TeamsOf(goroutines[g].key) # {}

\* ------------------------------------------------------------------------
\* UserWillLogIn
\* ------------------------------------------------------------------------

\* C31: once the rules are set up, UserWillLogIn refuses, with the
\* "deactivated" message, every soft-deleted user, refuses every other user
\* whose username, nickname or email domain a rule flags, and allows every
\* user else, also when no rule is configured
C31_LoginRefusedIffFlagged ==
    (LoginServed /\ RulesSetUp) =>
        IF last.user.DeleteAt > 0
        THEN last.ret.kind = "ok" /\ last.ret.message = DeactivatedMessage
        ELSE IF RuleFlagged(last.user)
        THEN LoginRefused
        ELSE LoginAllowed

\* C31, as far as the code goes: the same with "a rule flags" read as
\* "checkBadUsername or checkBadEmail reports"
C31_ReportedLoginRefused ==
    (LoginServed /\ RulesSetUp) =>
        IF last.user.DeleteAt > 0
        THEN last.ret.kind = "ok" /\ last.ret.message = DeactivatedMessage
        ELSE IF checkBadUsername(last.user) \/ checkBadEmail(last.user) = "bad"
        THEN last.ret.kind = "ok" /\ last.ret.message = GuidelinesMessage
        ELSE LoginAllowed

\* a soft-deleted user with a bad username got the "deactivated" message
C31_DeletedBeforeRules ==
    /\ LoginServed /\ RulesSetUp
    /\ last.user.DeleteAt > 0
    /\ checkBadUsername(last.user)
    /\ last.ret.message = DeactivatedMessage

\* a login was allowed while no rule is configured
C31_AllowedWithoutRules ==
    /\ LoginServed /\ RulesSetUp
    /\ ~configuration.BuiltinBadDomains
    /\ badUsernamesRegex = Nil /\ badDomainsRegex = Nil
    /\ LoginAllowed

\* ------------------------------------------------------------------------
\* The username of a cleaned-up account
\* ------------------------------------------------------------------------

\* the cleanup of the account ran to its end
CleanedUp == CreationServed /\ last.ret.kind = "cleanup" /\ ~last.ret.err

MaxObjects == 3

\* the caller and the pointers it holds
Holding(pointers) == [op |-> "caller", held |-> pointers]

AliasIds == {"bob", "hater"}

\* user := &model.User{...}; c.Put(user.Id, user): the entry keeps the pointer
CallerPut(user, order) ==
    /\ Len(heap) < MaxObjects
    /\ heap' = Append(heap, user)
    /\ cache' = LRUPut(cache, user.Id, Len(heap) + 1, order)
    /\ goroutines' = << Holding(goroutines[1].held \cup {Len(heap) + 1}) >>
    /\ history' = [history EXCEPT !.puts = @ \cup {[key |-> user.Id, user |-> user]}]
    /\ UNCHANGED << configuration, badWordsRegex, badDomainsRegex, badUsernamesRegex,
                    badDomainsList, users, last, teamMembers >>

\* user, found := c.Get(key): on a hit the caller gets entry.user
CallerGet(key) ==
    /\ \E hit \in {LRUGet(cache, key)} :
          /\ cache' = hit.c
          /\ goroutines' = << Holding(goroutines[1].held
                                         \cup IF hit.found THEN {hit.user} ELSE {}) >>
    /\ UNCHANGED << configuration, badWordsRegex, badDomainsRegex, badUsernamesRegex,
                    badDomainsList, users, last, history, teamMembers, heap >>

\* user, err := p.GetUserByID(userID): on a hit the caller gets entry.user;
\* on a miss the fetched user is copied, cacheUser := *user, and the caller
\* gets &cacheUser, the pointer that Put has stored
CallerGetUserByID(userID, ok, order) ==
    /\ \E hit \in {LRUGet(cache, userID)} :
          IF hit.found
          THEN /\ cache' = hit.c
               /\ goroutines' = << Holding(goroutines[1].held \cup {hit.user}) >>
               /\ UNCHANGED << heap, history >>
          ELSE /\ ok
               /\ Len(heap) < MaxObjects
               /\ heap' = Append(heap, users[userID])
               /\ cache' = LRUPut(cache, userID, Len(heap) + 1, order)
               /\ goroutines' = << Holding(goroutines[1].held \cup {Len(heap) + 1}) >>
               /\ history' = [history EXCEPT
                                 !.puts = @ \cup {[key |-> userID, user |-> users[userID]]}]
    /\ UNCHANGED << configuration, badWordsRegex, badDomainsRegex, badUsernamesRegex,
                    badDomainsList, users, last, teamMembers >>

\* the caller writes to a user it holds: user.Nickname = ...
CallerMutates(pointer) ==
    /\ pointer \in goroutines[1].held
    /\ heap[pointer].Nickname # Text_hate
    /\ heap' = [heap EXCEPT ![pointer].Nickname = Text_hate]
    /\ UNCHANGED << configuration, badWordsRegex, badDomainsRegex, badUsernamesRegex,
                    badDomainsList, cache, users, last, goroutines, history, teamMembers >>

InitAliasing ==
    /\ configuration = Nil
    /\ badWordsRegex = Nil
    /\ badDomainsRegex = Nil
    /\ badUsernamesRegex = Nil
    /\ badDomainsList = Nil
    /\ cache = NewLRUCache(MaxCapacity)
    /\ users = InitialUsers
    /\ last = Idle
    /\ goroutines = << Holding({}) >>
    /\ history = NoHistory
    /\ teamMembers = {}
    /\ heap = NoObjects

NextAliasing ==
    \/ \E userID \in AliasIds : \E order \in IterationOrders(cache.cache) :
          CallerPut(users[userID], order)
    \/ \E key \in AliasIds : CallerGet(key)
    \/ \E userID \in AliasIds : \E ok \in BOOLEAN : \E order \in IterationOrders(cache.cache) :
          CallerGetUserByID(userID, ok, order)
    \/ \E pointer \in 1..MaxObjects : CallerMutates(pointer)

SpecAliasing == InitAliasing /\ [][NextAliasing]_vars

\* what a lookup of key returns now
LookedUp(key) == heap[cache.cache[key].user]

\* C33: the cached snapshots are isolated from the callers: whatever a
\* caller writes to a user it has handed to Put or got from Get or
\* GetUserByID, a lookup returns for each cached id a value that was put
\* for it.  The code does not keep this: Put stores the caller's pointer,
\* Get returns the stored pointer, and GetUserByID returns the very copy it
\* has put.
C33_SnapshotsIsolated ==
    \A key \in DOMAIN cache.cache :
        [key |-> key, user |-> LookedUp(key)] \in history.puts

\* ------------------------------------------------------------------------
\* GetUserByID as a look-aside read
\* ------------------------------------------------------------------------

\* the hook found the joining user in the cache
JoinerCached ==
    /\ last.before.cache # Nil
    /\ last.teamMember.UserId \in DOMAIN last.before.cache.cache

\* C34: on a cache hit GetUserByID returns the cached snapshot and does not
\* call p.API.GetUser; when p.API.GetUser fails it returns an error and the
\* cache is as it was, with no entry for the id
C34_LookAsideRead ==
    JoinServed =>
        /\ JoinerCached =>
              /\ last.ret.kind # "unresolved"
              /\ last.resolved = last.before.cache.cache[last.teamMember.UserId].user
              /\ last.ret.fetched = 0
        /\ last.ret.kind = "unresolved" =>
              /\ last.ret.err
              /\ last.ret.fetched = 1
              /\ cache = last.before.cache
              /\ cache # Nil => last.teamMember.UserId \notin DOMAIN cache.cache

\* a failed fetch with a cache that holds another user
C34_Witness ==
    /\ JoinServed
    /\ last.ret.kind = "unresolved"
    /\ cache # Nil
    /\ DOMAIN cache.cache # {}

\* a hit, in a hook that went on to remove the user from the team
C34_HitWitness ==
    /\ JoinServed /\ JoinerCached
    /\ last.ret.kind = "blocked"
    /\ last.ret.fetched = 0

\* ------------------------------------------------------------------------
\* setConfiguration and the identity of the configuration object.  Here
\* p.configuration is a pointer: Nil or At(address), address the index in
\* heap of a configuration object, and the caller holds the addresses of the
\* objects it has made or got.
\* ------------------------------------------------------------------------

\* the pointer to the object at address
At(address) == [at |-> address]

\* reflect.ValueOf(*configuration).NumField()
NumField(config) == Cardinality(DOMAIN config)

\* the values of the configuration objects
ConfigurationValues == {EmptyConfiguration, [EmptyConfiguration EXCEPT !.RejectPosts = TRUE]}

\* setConfiguration panicking when the values are equal
setConfigurationComparingValues(active, config, objects) ==
    IF config # Nil /\ active # Nil /\ objects[active.at] = objects[config.at]
    THEN [ret |-> "panic", configuration |-> active]
    ELSE [ret |-> "set", configuration |-> config]

\* setConfiguration(configuration) with p.configuration = active: what it
\* does and p.configuration after it
setConfiguration(active, config, objects) ==
    IF config # Nil /\ active = config
    THEN IF NumField(objects[config.at]) = 0
         THEN [ret |-> "ignored", configuration |-> active]
         ELSE [ret |-> "panic", configuration |-> active]
    ELSE [ret |-> "set", configuration |-> config]

\* var configuration = new(configuration), loaded with value
NewConfiguration(value) ==
    /\ Len(heap) < MaxObjects
    /\ heap' = Append(heap, value)
    /\ goroutines' = << Holding(goroutines[1].held \cup {Len(heap) + 1}) >>
    /\ UNCHANGED << configuration, badWordsRegex, badDomainsRegex, badUsernamesRegex,
                    badDomainsList, cache, users, last, history, teamMembers >>

\* c.Clone(): var clone = *c; return &clone
CallerClone(pointer) ==
    /\ pointer \in goroutines[1].held
    /\ NewConfiguration(heap[pointer])

\* p.getConfiguration(): p.configuration itself, or a new &configuration{}
\* when it is nil
CallerGetConfiguration ==
    IF configuration = Nil
    THEN NewConfiguration(EmptyConfiguration)
    ELSE /\ configuration.at \notin goroutines[1].held
         /\ goroutines' = << Holding(goroutines[1].held \cup {configuration.at}) >>
         /\ UNCHANGED << configuration, badWordsRegex, badDomainsRegex, badUsernamesRegex,
                         badDomainsList, cache, users, last, history, teamMembers, heap >>

\* p.setConfiguration(config)
CallerSetConfiguration(config) ==
    /\ IF config = Nil THEN TRUE ELSE config.at \in goroutines[1].held
    /\ \E done \in {setConfiguration(configuration, config, heap)} :
          /\ configuration' = done.configuration
          /\ last' = [hook |-> "setConfiguration", config |-> config,
                      before |-> configuration, ret |-> done.ret]
    /\ UNCHANGED << badWordsRegex, badDomainsRegex, badUsernamesRegex,
                    badDomainsList, cache, users, goroutines, history, teamMembers, heap >>

InitReferences ==
    /\ configuration = Nil
    /\ badWordsRegex = Nil
    /\ badDomainsRegex = Nil
    /\ badUsernamesRegex = Nil
    /\ badDomainsList = Nil
    /\ cache = Nil
    /\ users = InitialUsers
    /\ last = Idle
    /\ goroutines = << Holding({}) >>
    /\ history = NoHistory
    /\ teamMembers = {}
    /\ heap = NoObjects

NextReferences ==
    \/ \E value \in ConfigurationValues : NewConfiguration(value)
    \/ \E pointer \in 1..MaxObjects : CallerClone(pointer)
    \/ CallerGetConfiguration
    \/ \E config \in {Nil} \cup {At(address) : address \in 1..MaxObjects} :
          CallerSetConfiguration(config)

SpecReferences == InitReferences /\ [][NextReferences]_vars

SetServed == last.hook = "setConfiguration"

\* C35: called with the reference that is active, setConfiguration panics
\* and the active configuration stays the one it was; called with another
\* object, be it of equal value, or with nil, it makes that the active
\* configuration
C35_PanicsOnActiveReference ==
    SetServed =>
        IF last.config # Nil /\ last.config = last.before
        THEN last.ret = "panic" /\ configuration = last.before
        ELSE last.ret = "set" /\ configuration = last.config

\* a distinct object of equal value has replaced the active one
C35_Witness ==
    /\ SetServed
    /\ last.before # Nil /\ last.config # Nil
    /\ last.config # last.before
    /\ heap[last.config.at] = heap[last.before.at]
    /\ configuration = last.config

\* the active reference was passed and the call panicked
C35_PanicWitness ==
    /\ SetServed
    /\ last.config = last.before
    /\ last.config # Nil
    /\ last.ret = "panic"

\* nil has replaced an active configuration
C35_NilWitness ==
    /\ SetServed
    /\ last.before # Nil /\ last.config = Nil
    /\ configuration = Nil

\* ------------------------------------------------------------------------
\* The administrator on whose behalf a flagged user is removed from a team
\* ------------------------------------------------------------------------

\* the hook has looked for the administrator
AdminLookedUp == CallsOf("GetUserByUsername") # {} \/ CallsOf("GetUsers") # {}

\* p.API.GetUserByUsername has returned the configured account
NameFound == \E i \in CallsOf("GetUserByUsername") : last.ret.calls[i].ok

\* the hook went on to the search by role
RoleSearched == CallsOf("GetUsers") # {}

\* the account of the store with the configured username, when NameFound
NamedAdmin ==
    users[CHOOSE id \in DOMAIN users : users[id].Username = getConfiguration.AdminUsername]

\* the administrator ids given to p.API.DeleteTeamMember: the id
\* getSystemAdminUser returned, "" (or no removal at all) after an error
AdminUsed == { last.ret.calls[i].admin : i \in CallsOf("DeleteTeamMember") }

\* what getSystemAdminUser does with a configured account that is active and
\* not an administrator, and what it returns from the search by role
ConfiguredAdminChecked ==
    /\ (/\ NameFound
        /\ NamedAdmin.DeleteAt = 0
        /\ ~Contains(NamedAdmin.Roles, Text_system_admin)) =>
            /\ ~RoleSearched
            /\ AdminUsed \subseteq {""}
    /\ (/\ NameFound
        /\ NamedAdmin.DeleteAt = 0
        /\ Contains(NamedAdmin.Roles, Text_system_admin)) =>
            /\ ~RoleSearched
            /\ AdminUsed = {NamedAdmin.Id}
    /\ (\E i \in CallsOf("GetUsers") : last.ret.calls[i].ok) =>
            AdminUsed = {FirstActive(users, RoleSearch(users))}
    /\ (\E i \in CallsOf("GetUsers") : ~last.ret.calls[i].ok) =>
            AdminUsed \subseteq {""}

C36_NotFoundWitness ==
    /\ JoinServed
    /\ CallsOf("GetUserByUsername") # {} /\ ~NameFound
    /\ AdminUsed = {"ann"}

\* the configured account is deactivated and the search by role gave ann
C36_DeactivatedWitness ==
    /\ CreationServed
    /\ NameFound /\ NamedAdmin.DeleteAt # 0
    /\ AdminUsed = {"ann"}

\* ------------------------------------------------------------------------
\* The removal of a flagged joiner when no administrator is resolved
\* ------------------------------------------------------------------------

\* getSystemAdminUser returned an error: the configured account is active
\* and not an administrator, or p.API.GetUsers failed
AdminLookupFailed ==
    \/ /\ NameFound /\ ~RoleSearched
       /\ ~Contains(NamedAdmin.Roles, Text_system_admin)
    \/ \E i \in CallsOf("GetUsers") : ~last.ret.calls[i].ok

\* C37: when the hook finds the joiner flagged and no administrator is
\* resolved, it makes one p.API.DeleteTeamMember and no more, for this user
\* and team and with the empty administrator id, after the lookup; whether
\* that call fails or not the hook returns normally, the membership staying
\* exactly when the call failed
C37_RemovalWithoutAdmin ==
    (JoinServed /\ last.ret.kind = "blocked" /\ AdminLookupFailed) =>
        /\ Cardinality(CallsOf("DeleteTeamMember")) = 1
        /\ \A i \in CallsOf("DeleteTeamMember") :
              /\ i = Len(last.ret.calls)
              /\ last.ret.calls[i].admin = ""
              /\ last.ret.calls[i].user = last.teamMember.UserId
              /\ last.ret.calls[i].team = last.teamMember.TeamId
              /\ last.ret.calls[i].ok <=> last.teamMember \notin teamMembers
        /\ ~last.ret.err

\* the removal without administrator was made and failed
C37_Witness ==
    /\ JoinServed /\ last.ret.kind = "blocked" /\ AdminLookupFailed
    /\ \E i \in CallsOf("DeleteTeamMember") :
          last.ret.calls[i].admin = "" /\ ~last.ret.calls[i].ok
    /\ last.teamMember \in teamMembers

\* the removal without administrator was made and succeeded
C37_RemovedWitness ==
    /\ JoinServed /\ last.ret.kind = "blocked" /\ AdminLookupFailed
    /\ \E i \in CallsOf("DeleteTeamMember") :
          last.ret.calls[i].admin = "" /\ last.ret.calls[i].ok
    /\ last.teamMember \notin teamMembers

\* ------------------------------------------------------------------------
\* The locks and the calls of the collaborators.  Here a goroutine goes
\* through its hook one lock operation or one call of the plugin API at a
\* time: the lock operations are those of c.lock (LRUCache) and of
\* p.configurationLock, the calls are those of p.API other than logging.
\* What a hook reads (hit or miss, success or failure) is chosen when it
\* starts.
\* ------------------------------------------------------------------------

RLock(lock) == [do |-> "RLock", on |-> lock]

RUnlock(lock) == [do |-> "RUnlock", on |-> lock]

Lock(lock) == [do |-> "Lock", on |-> lock]

Unlock(lock) == [do |-> "Unlock", on |-> lock]

External(api) == [do |-> "call", on |-> api]

\* LRUCache.Get: the lookup under the read lock, and on a hit the update of
\* lastAccess under the write lock
GetPath(found) ==
    << RLock("c.lock"), RUnlock("c.lock") >>
        \o IF found THEN << Lock("c.lock"), Unlock("c.lock") >> ELSE << >>

\* LRUCache.Put and LRUCache.Remove
PutPath == << Lock("c.lock"), Unlock("c.lock") >>

RemovePath == << Lock("c.lock"), Unlock("c.lock") >>

getConfigurationPath == << RLock("configurationLock"), RUnlock("configurationLock") >>

setConfigurationPath == << Lock("configurationLock"), Unlock("configurationLock") >>

\* a GetUserByID that fetches the user under the lock of the cache
GetUserByIDPathFetchingLocked(found, ok) ==
    IF found
    THEN GetPath(TRUE)
    ELSE << Lock("c.lock"), External("GetUser"), Unlock("c.lock") >>

\* GetUserByID: Get, and on a miss p.API.GetUser and, when it succeeds, Put
GetUserByIDPath(found, ok) ==
    GetPath(found)
        \o IF found
           THEN << >>
           ELSE << External("GetUser") >> \o IF ok THEN PutPath ELSE << >>

\* getSystemAdminUser: getConfiguration, GetUserByUsername when a name is
\* configured, GetUsers when it goes on to the search by role
getSystemAdminUserPath(named, byRole) ==
    getConfigurationPath
        \o (IF named THEN << External("GetUserByUsername") >> ELSE << >>)
        \o (IF byRole THEN << External("GetUsers") >> ELSE << >>)

\* UserHasJoinedTeam of a flagged user: GetUserByID, removeUserFromTeam
UserHasJoinedTeamPath(found, ok, named, byRole) ==
    GetUserByIDPath(found, ok)
        \o IF found \/ ok
           THEN getSystemAdminUserPath(named, byRole) \o << External("DeleteTeamMember") >>
           ELSE << >>

\* UserHasBeenCreated of a flagged user in one team: cleanupUser, that is
\* RemoveUserFromTeams, DeleteUser, and when it succeeds Remove and GetUser
UserHasBeenCreatedPath(named, byRole, deleteOK) ==
    << External("GetTeamsForUser") >>
        \o getSystemAdminUserPath(named, byRole)
        \o << External("DeleteTeamMember"), External("DeleteUser") >>
        \o IF deleteOK THEN RemovePath \o << External("GetUser") >> ELSE << >>

\* OnConfigurationChange: LoadPluginConfiguration, and when it succeeds
\* setConfiguration
OnConfigurationChangePath(loadOK) ==
    << External("LoadPluginConfiguration") >>
        \o IF loadOK THEN setConfigurationPath ELSE << >>

\* MessageWillBePosted: getConfiguration, GetUserByID in
\* shouldBlockUserPost, and the notice to a flagged user or, for a post with
\* a bad word, the notice of the rejection or getConfiguration for the
\* censor character
MessageWillBePostedPath(found, ok, flagged, rejected) ==
    getConfigurationPath
        \o GetUserByIDPath(found, ok)
        \o IF flagged
           THEN << External("SendEphemeralPost") >>
           ELSE IF rejected
           THEN << External("SendEphemeralPost") >>
           ELSE getConfigurationPath

\* the hooks the goroutines serve, as the operations they go through
HookPaths ==
    {UserHasJoinedTeamPath(found, ok, named, TRUE) :
        found \in BOOLEAN, ok \in BOOLEAN, named \in BOOLEAN}
    \cup {UserHasBeenCreatedPath(FALSE, TRUE, deleteOK) : deleteOK \in BOOLEAN}
    \cup {OnConfigurationChangePath(loadOK) : loadOK \in BOOLEAN}
    \cup {MessageWillBePostedPath(found, TRUE, flagged, rejected) :
            found \in BOOLEAN, flagged \in BOOLEAN, rejected \in BOOLEAN}

\* the number of goroutines that go through a hook
NumCallers == 2

Callers == 1..NumCallers

\* a goroutine with the operations it has still to make, the locks it holds
\* and whether it is inside a call of the plugin API
Going(path, held, calling) == [op |-> "hook", path |-> path, held |-> held, calling |-> calling]

Waiting == Going(<< >>, {}, FALSE)

\* the locks held by the goroutines other than g, with their mode
HeldByOthers(g) == UNION { goroutines[h].held : h \in Callers \ {g} }

\* sync.RWMutex: what lets a goroutine through Lock and through RLock
CanLock(g, lock) == \A held \in HeldByOthers(g) \cup goroutines[g].held : held.on # lock

CanRLock(g, lock) == [do |-> "Lock", on |-> lock] \notin HeldByOthers(g) \cup goroutines[g].held

\* the server calls a hook on goroutine g
HookCalled(g, path) ==
    /\ goroutines[g] = Waiting
    /\ \A h \in Callers : h < g => goroutines[h] # Waiting
    /\ goroutines' = [goroutines EXCEPT ![g] = Going(path, {}, FALSE)]
    /\ UNCHANGED << configuration, badWordsRegex, badDomainsRegex, badUsernamesRegex,
                    badDomainsList, cache, users, last, history, teamMembers, heap >>

\* g gets through the Lock or RLock it has come to
Acquire(g) ==
    /\ goroutines[g].path # << >>
    /\ \E step \in {Head(goroutines[g].path)} :
          /\ step.do \in {"Lock", "RLock"}
          /\ IF step.do = "Lock" THEN CanLock(g, step.on) ELSE CanRLock(g, step.on)
          /\ goroutines' = [goroutines EXCEPT
                               ![g] = Going(Tail(@.path), @.held \cup {step}, FALSE)]
    /\ UNCHANGED << configuration, badWordsRegex, badDomainsRegex, badUsernamesRegex,
                    badDomainsList, cache, users, last, history, teamMembers, heap >>

\* g makes the Unlock or RUnlock it has come to
Release(g) ==
    /\ goroutines[g].path # << >>
    /\ \E step \in {Head(goroutines[g].path)} :
          /\ step.do \in {"Unlock", "RUnlock"}
          /\ goroutines' = [goroutines EXCEPT
                               ![g] = Going(Tail(@.path),
                                            @.held \ {IF step.do = "Unlock"
                                                      THEN Lock(step.on)
                                                      ELSE RLock(step.on)},
                                            FALSE)]
    /\ UNCHANGED << configuration, badWordsRegex, badDomainsRegex, badUsernamesRegex,
                    badDomainsList, cache, users, last, history, teamMembers, heap >>

\* g enters the call of the plugin API it has come to
CallOut(g) ==
    /\ goroutines[g].path # << >>
    /\ ~goroutines[g].calling
    /\ Head(goroutines[g].path).do = "call"
    /\ goroutines' = [goroutines EXCEPT ![g].calling = TRUE]
    /\ UNCHANGED << configuration, badWordsRegex, badDomainsRegex, badUsernamesRegex,
                    badDomainsList, cache, users, last, history, teamMembers, heap >>

\* the call of the plugin API returns to g
CallBack(g) ==
    /\ goroutines[g].calling
    /\ goroutines' = [goroutines EXCEPT ![g] = Going(Tail(@.path), @.held, FALSE)]
    /\ UNCHANGED << configuration, badWordsRegex, badDomainsRegex, badUsernamesRegex,
                    badDomainsList, cache, users, last, history, teamMembers, heap >>

InitLocks ==
    /\ configuration = Nil
    /\ badWordsRegex = Nil
    /\ badDomainsRegex = Nil
    /\ badUsernamesRegex = Nil
    /\ badDomainsList = Nil
    /\ cache = NewLRUCache(CacheCapacity)
    /\ users = InitialUsers
    /\ last = Idle
    /\ goroutines = [g \in Callers |-> Waiting]
    /\ history = NoHistory
    /\ teamMembers = {}
    /\ heap = NoObjects

NextLocks ==
    \/ \E g \in Callers : \E path \in HookPaths : HookCalled(g, path)
    \/ \E g \in Callers : Acquire(g)
    \/ \E g \in Callers : Release(g)
    \/ \E g \in Callers : CallOut(g)
    \/ \E g \in Callers : CallBack(g)

SpecLocks == InitLocks /\ [][NextLocks]_vars

\* C38: a goroutine that is inside a call of a collaborator (p.API.GetUser,
\* GetTeamsForUser, DeleteTeamMember, DeleteUser, SendEphemeralPost,
\* LoadPluginConfiguration, ...) holds neither c.lock nor
\* p.configurationLock
C38_NoLockAcrossCalls ==
    \A g \in Callers : goroutines[g].calling => goroutines[g].held = {}

\* a goroutine is inside p.API.GetUser while another holds the lock of the
\* cache
C38_Witness ==
    \E g, h \in Callers :
        /\ goroutines[g].calling
        /\ Head(goroutines[g].path).on = "GetUser"
        /\ Lock("c.lock") \in goroutines[h].held

\* a goroutine is inside LoadPluginConfiguration while another holds the
\* configuration lock
C38_LoadWitness ==
    \E g, h \in Callers :
        /\ goroutines[g].calling
        /\ Head(goroutines[g].path).on = "LoadPluginConfiguration"
        /\ RLock("configurationLock") \in goroutines[h].held

\* ------------------------------------------------------------------------
\* The LRUCache with arbitrary keys: the empty string is a key like any
\* other for the map, and the mark of "no key yet" for evictOldest
\* ------------------------------------------------------------------------

ArbitraryKeys == {"", "bob", "ann"}

\* the values stored for a key
ValuesFor(key) == IF key = "" THEN {EmptyUser} ELSE {InitialUsers[key]}

NextArbitraryKeys ==
    \/ \E key \in ArbitraryKeys : \E user \in ValuesFor(key) :
          \E order \in IterationOrders(cache.cache) : CachePut(key, user, order)
    \/ \E key \in ArbitraryKeys : CacheGet(key)
    \/ \E key \in ArbitraryKeys : CacheRemove(key)

SpecArbitraryKeys == InitCache /\ [][NextArbitraryKeys]_vars

\* C39: a Put of a new key into a full cache removes exactly one entry,
\* whatever the keys, the empty string included, so that the cache never
\* holds more entries than its capacity
C39_EvictsOneForAnyKey ==
    /\ InsertedIntoFull =>
          \E evicted \in KeysBefore : Keys = (KeysBefore \ {evicted}) \cup {last.key}
    /\ Cardinality(Keys) <= cache.capacity

\* C39 for the keys that are not empty: when the empty string is not a
\* cached key, exactly one entry is removed, and a cache that was within
\* its capacity stays within it
C39_EvictsOneForNonEmptyKeys ==
    (InsertedIntoFull /\ "" \notin KeysBefore) =>
        /\ \E evicted \in KeysBefore : Keys = (KeysBefore \ {evicted}) \cup {last.key}
        /\ Cardinality(KeysBefore) <= cache.capacity => Cardinality(Keys) <= cache.capacity

\* a new key was put into a full cache that holds the empty string
C39_EmptyKeyCached ==
    /\ InsertedIntoFull
    /\ "" \in KeysBefore

\* ------------------------------------------------------------------------
\* wordListToRegex on lists of phrases of which one begins with another
\* ------------------------------------------------------------------------

\* the tokens a list is made of, as written between the commas
PhraseTokens ==
    { << "a", "b" >>,
      << " ", "a", "b", " " >>,
      << "a", "b", " ", "c" >>,
      << " ", "a", "b", " ", "c" >>,
      << "a", "b", " ", "c", " ", "d" >>,
      << "c" >> }

\* the number of tokens of a list
MaxTokens == 3

\* strings.Join(tokens, ",")
RECURSIVE JoinTokens(_)
JoinTokens(tokens) ==
    IF Len(tokens) = 1
    THEN tokens[1]
    ELSE tokens[1] \o << "," >> \o JoinTokens(Tail(tokens))

PhraseLists ==
    { JoinTokens(tokens) : tokens \in UNION { [1..n -> PhraseTokens] : n \in 1..MaxTokens } }

PhraseTexts ==
    { << "a", "b", " ", "c" >>,
      << "a", "b", " ", "c", " ", "d" >>,
      << "A", "B", " ", "c", "d" >>,
      << "c", " ", "a", "b" >> }

\* splitWordListToRegex(wordList) for the configured list of bad words,
\* once
PhrasesCompiled(wordList) ==
    /\ last = Idle
    /\ badWordsRegex' = splitWordListToRegex(wordList, defaultRegexTemplate).regex
    /\ last' = [hook |-> "splitWordListToRegex", wordList |-> wordList]
    /\ UNCHANGED << configuration, badDomainsRegex, badUsernamesRegex, badDomainsList,
                    cache, users, goroutines, history, teamMembers, heap >>

\* p.badWordsRegex.FindAllString(text, -1)
PhrasesSearched(text) ==
    /\ last # Idle
    /\ badWordsRegex # Nil
    /\ last' = [hook |-> "FindAllString", wordList |-> last.wordList, text |-> text,
                found |-> FindAllString(badWordsRegex, text)]
    /\ UNCHANGED << configuration, badWordsRegex, badDomainsRegex, badUsernamesRegex,
                    badDomainsList, cache, users, goroutines, history, teamMembers, heap >>

InitPhrases ==
    /\ configuration = Nil
    /\ badWordsRegex = Nil
    /\ badDomainsRegex = Nil
    /\ badUsernamesRegex = Nil
    /\ badDomainsList = Nil
    /\ cache = Nil
    /\ users = InitialUsers
    /\ last = Idle
    /\ goroutines = NoGoroutines
    /\ history = NoHistory
    /\ teamMembers = {}
    /\ heap = NoObjects

NextPhrases ==
    \/ \E wordList \in PhraseLists : PhrasesCompiled(wordList)
    \/ \E text \in PhraseTexts : PhrasesSearched(text)

SpecPhrases == InitPhrases /\ [][NextPhrases]_vars

\* how many times the phrase is written in the list
TimesListed(wordList, phrase) ==
    Cardinality({ from \in 1..(Len(wordList) + 1) :
                    /\ from = 1 \/ wordList[from - 1] = ","
                    /\ \E to \in (from - 1)..Len(wordList) :
                          /\ to = Len(wordList) \/ wordList[to + 1] = ","
                          /\ \A i \in from..to : wordList[i] # ","
                          /\ TrimSpace(SubSeq(wordList, from, to)) = phrase })

\* the phrases of the list: what stands between the commas, without the
\* white space around it
ListedPhrases(wordList) ==
    { phrase \in { TrimSpace(tok) : tok \in PhraseTokens } : TimesListed(wordList, phrase) > 0 }

\* the phrase stands in the text at position i as a whole word or words,
\* whatever the case of its letters
PhraseStandsAt(phrase, text, i) ==
    /\ i + Len(phrase) - 1 <= Len(text)
    /\ \A j \in 1..Len(phrase) : ToLower(phrase[j]) = ToLower(text[i + j - 1])
    /\ WordBoundary(text, i - 1)
    /\ WordBoundary(text, i + Len(phrase) - 1)

\* p is a proper prefix of q
ProperPrefix(p, q) == Len(p) < Len(q) /\ SubSeq(q, 1, Len(p)) = p

\* the first position of the text at which a listed phrase stands, 0 when
\* there is none
FirstStanding(wordList, text) ==
    LET standing == { i \in 1..Len(text) :
                        \E phrase \in ListedPhrases(wordList) : PhraseStandsAt(phrase, text, i) }
    IN  IF standing = {} THEN 0 ELSE CHOOSE i \in standing : \A j \in standing : i <= j

\* C40: the alternatives of the regular expression are the phrases of the
\* list, split on the commas and trimmed, in an order of non-increasing
\* length; so when a listed phrase and a listed proper prefix of it both
\* stand at a position of the text, the match that starts there is not the
\* prefix: it is the longest listed phrase that stands there
C40_LongerPhraseFound ==
    (last # Idle /\ badWordsRegex # Nil) =>
        /\ \A phrase \in { TrimSpace(tok) : tok \in PhraseTokens } :
              Cardinality({ k \in 1..Len(badWordsRegex.alts) : badWordsRegex.alts[k] = phrase })
                  = TimesListed(last.wordList, phrase)
        /\ \A k \in 1..(Len(badWordsRegex.alts) - 1) :
              Len(badWordsRegex.alts[k]) >= Len(badWordsRegex.alts[k + 1])
        /\ last.hook = "FindAllString" =>
              \E listed \in {ListedPhrases(last.wordList)} :
                  /\ \A i \in 1..Len(last.text) :
                        \E standing \in {{ phrase \in listed : PhraseStandsAt(phrase, last.text, i) }} :
                            \A p, q \in standing :
                                ProperPrefix(p, q) =>
                                    /\ MatchLenAt(badWordsRegex, last.text, i) >= Len(q)
                                    /\ \E longest \in standing :
                                          /\ Len(longest) = MatchLenAt(badWordsRegex, last.text, i)
                                          /\ \A other \in standing : Len(other) <= Len(longest)
                  /\ \E i \in {FirstStanding(last.wordList, last.text)} :
                        i > 0 =>
                            /\ last.found # << >>
                            /\ \A phrase \in listed :
                                  PhraseStandsAt(phrase, last.text, i) =>
                                      Len(phrase) <= Len(last.found[1])

\* the list names the prefix before the phrase, with white space around
\* them, and the phrase was found whole
C40_Witness ==
    /\ last # Idle
    /\ last.hook = "FindAllString"
    /\ last.wordList = << "a", "b", ",", " ", "a", "b", " ", "c" >>
    /\ last.text = << "a", "b", " ", "c" >>
    /\ last.found = << << "a", "b", " ", "c" >> >>
    /\ badWordsRegex.alts = << << "a", "b", " ", "c" >>, << "a", "b" >> >>

====
